---- MODULE Spec2Model ----
(***************************************************************************)
(* A model of the VIM loader of vim-webgl-viewer (class VIMLoader in       *)
(* src/src/input_touch.ts): the BFAST container reader, the entity table   *)
(* and string decoders, the load/parse error path, the mesh builder, the   *)
(* reference counts, instanced meshes and merged mesh of parse, and of the *)
(* lookup of an element name in src/src/viewer.ts.                         *)
(*                                                                         *)
(* Byte buffers are sequences of 0..255, strings are sequences of code     *)
(* points, typed-array views are records (byteOffset, byteLength) into the *)
(* buffer they alias. Vertices lie on the x axis and instance transforms   *)
(* are translations along it, so that spheres and matrices stay integers.  *)
(***************************************************************************)
EXTENDS Integers, Sequences, FiniteSets, TLC

VARIABLES
    \* parseBFast: its three arguments and what it returned or threw; encoded
    \* records the names and buffers the container was written from
    arrayBuffer, byteOffset, byteLength, bfast, encoded,
    \* constructEntityTable: the table's container and the returned column map
    tableBFast, entityTable,
    \* constructVIM, strings section: the section's bytes and the decoded list
    stringData, strings,
    \* load: the response, the callbacks given, the position in load/parse,
    \* the exception in flight and what the callbacks received
    response, callbacks, pc, thrown, vimScene, onLoadCalls, onErrorCalls,
    \* allocateGeometry: the geometry attributes, the loop position, the
    \* scratch buffers and the result list
    g3d, mesh, colorBuffer, indexBuffer, resultMeshes,
    \* parse after constructVIM: the stage reached and the instance the loop
    \* of applyMatrices or the merging loop is at, the reference counts, the
    \* instanced meshes, the slot counters, what applyMatrices returns, the
    \* geometries to merge, the merged mesh, the ids given to meshes so far,
    \* the returned scene and the scene of an earlier parse of the same buffer
    stage, instance, meshRefCounts, rawMeshes, instanceCounters, sceneGeometry,
    singles, bigMesh, object3DId, scene, firstScene,
    \* Viewer: the loaded vim (entity tables and strings), the node index
    \* given to getElementNameFromNodeIndex and what the call came to
    vim, nodeIndex, elementName,
    \* InputTouch: its four fields, the number of fingers on the screen and
    \* what the last event came to
    touchStart, touchStart1, touchStart2, touchStartTime, fingers, gesture,
    \* Viewer.select: the mesh and the slot of the hit, and what select did
    hit, selection

bfastVars == <<arrayBuffer, byteOffset, byteLength, bfast, encoded>>
decodeVars == <<tableBFast, entityTable, stringData, strings>>
loadVars == <<response, callbacks, pc, thrown, vimScene, onLoadCalls, onErrorCalls>>
geometryVars == <<g3d, mesh, colorBuffer, indexBuffer, resultMeshes>>
sceneVars == <<stage, instance, meshRefCounts, rawMeshes, instanceCounters,
               sceneGeometry, singles, bigMesh, object3DId, scene, firstScene>>
viewerVars == <<vim, nodeIndex, elementName>>
touchVars == <<touchStart, touchStart1, touchStart2, touchStartTime, fingers, gesture>>
selectVars == <<hit, selection>>
vars == <<bfastVars, decodeVars, loadVars, geometryVars, sceneVars, viewerVars, touchVars,
          selectVars>>

----------------------------------------------------------------------------
(* Bounds of the model *)

\* most named buffers of a container
MaxBuffers == 2
\* most code points of a generated name
MaxNameLen == 1

----------------------------------------------------------------------------
(* Sequences, bytes and text *)

SeqsUpTo(S, n) == UNION {[1..k -> S] : k \in 0..n}

Range(s) == {s[i] : i \in 1..Len(s)}
MinOf(S) == CHOOSE x \in S : \A y \in S : x <= y
MaxOf(S) == CHOOSE x \in S : \A y \in S : x >= y

RECURSIVE Concat(_)
Concat(ss) == IF ss = <<>> THEN <<>> ELSE Head(ss) \o Concat(Tail(ss))

Slice(s, from, to) == SubSeq(s, from + 1, to)

\* the separator of name and string lists
NUL == 0
\* U+FEFF, which a UTF-8 decoder takes for a byte order mark at the start
BOM == 65279
\* U+FFFD, what a UTF-8 decoder puts for a malformed sequence
ReplacementChar == 65533

\* TextEncoder: the UTF-8 bytes of one code point below 2^16
Utf8OfChar(c) ==
    IF c < 128 THEN <<c>>
    ELSE IF c < 2048 THEN <<192 + (c \div 64), 128 + (c % 64)>>
    ELSE <<224 + (c \div 4096), 128 + ((c \div 64) % 64), 128 + (c % 64)>>

Utf8Encode(s) == Concat([i \in 1..Len(s) |-> Utf8OfChar(s[i])])

IsCont(b) == b \in 128..191

RECURSIVE Utf8Chars(_)
Utf8Chars(b) ==
    IF b = <<>> THEN <<>>
    ELSE IF b[1] < 128 THEN <<b[1]>> \o Utf8Chars(Tail(b))
    ELSE IF b[1] \in 194..223 /\ Len(b) >= 2 /\ IsCont(b[2])
        THEN <<(b[1] - 192) * 64 + (b[2] - 128)>> \o Utf8Chars(SubSeq(b, 3, Len(b)))
    ELSE IF /\ b[1] \in 224..239 /\ Len(b) >= 3 /\ IsCont(b[2]) /\ IsCont(b[3])
            /\ (b[1] = 224 => b[2] >= 160) /\ (b[1] = 237 => b[2] < 160)
        THEN <<(b[1] - 224) * 4096 + (b[2] - 128) * 64 + (b[3] - 128)>>
                 \o Utf8Chars(SubSeq(b, 4, Len(b)))
    ELSE <<ReplacementChar>> \o Utf8Chars(Tail(b))

\* new TextDecoder('utf-8').decode(bytes): malformed bytes become U+FFFD and a
\* leading byte order mark is dropped (ignoreBOM is false by default)
TextDecode(bytes) ==
    LET s == Utf8Chars(bytes)
    IN IF s # <<>> /\ s[1] = BOM THEN Tail(s) ELSE s

\* String.prototype.split(sep) for a one-character separator
RECURSIVE Split(_, _)
Split(s, sep) ==
    IF \A i \in 1..Len(s) : s[i] # sep THEN <<s>>
    ELSE LET k == CHOOSE i \in 1..Len(s) : s[i] = sep /\ \A j \in 1..(i - 1) : s[j] # sep
         IN <<SubSeq(s, 1, k - 1)>> \o Split(SubSeq(s, k + 1, Len(s)), sep)

\* String.prototype.slice(0, -1)
DropLast(s) == SubSeq(s, 1, Len(s) - 1)

\* the four bytes of a 32-bit word, little-endian, two's complement
WordBytes(w) ==
    <<w % 256, (w \div 256) % 256, (w \div 65536) % 256, (w \div 16777216) % 256>>

Int32Of(b0, b1, b2, b3) ==
    b0 + 256 * b1 + 65536 * b2 + 16777216 * (IF b3 >= 128 THEN b3 - 256 ELSE b3)

----------------------------------------------------------------------------
(* parseBFast *)

\* const data = new Int32Array(arrayBuffer, byteOffset, byteLength / 4)
Int32ArrayOk(buf, off, len) ==
    /\ off >= 0 /\ len >= 0
    /\ off % 4 = 0
    /\ off + 4 * (len \div 4) <= Len(buf)

WordCount(len) == len \div 4

\* data[i] is defined
HasWord(len, i) == i >= 0 /\ i < WordCount(len)

\* data[i], for a defined i
WordAt(buf, off, i) ==
    Int32Of(buf[off + 4 * i + 1], buf[off + 4 * i + 2],
            buf[off + 4 * i + 3], buf[off + 4 * i + 4])

\* data[i] !== 0 (an undefined word is not 0)
NotZero(buf, off, len, i) == ~HasWord(len, i) \/ WordAt(buf, off, i) # 0

NoHeader == [numArrays |-> 0, dataStart |-> 0, dataEnd |-> 0]

\* BFastHeader.fromArray(data, byteLength): the 64-bit header fields are read
\* as pairs of 32-bit words, the high words are the reserved ones
BFastHeaderOk(buf, off, len) ==
    \A i \in {1, 3, 5, 7} : ~NotZero(buf, off, len, i)

BFastHeaderFromArray(buf, off) ==
    [dataStart |-> WordAt(buf, off, 2),
     dataEnd   |-> WordAt(buf, off, 4),
     numArrays |-> WordAt(buf, off, 6)]

BFastError(msg) ==
    [status |-> "error", error |-> msg, header |-> NoHeader,
     names |-> <<>>, buffers |-> <<>>]

\* DescriptorCheck without the checks of the two zero words
DescriptorCheckNoZeroWords(buf, off, len, header, pos) ==
    IF ~HasWord(len, pos + 3) THEN "Expected 0 in position"
    ELSE LET begin == WordAt(buf, off, pos + 0)
             end == WordAt(buf, off, pos + 2)
         IN IF begin < header.dataStart \/ begin > header.dataEnd
                THEN "Buffer start is out of range"
            ELSE IF end < begin \/ end > header.dataEnd
                THEN "Buffer end is out of range"
            ELSE IF begin + off < 0 \/ end + off > Len(buf)
                THEN "RangeError"
            ELSE "ok"

\* the first failing check of loop iteration i (descriptor at word pos), or "ok"
DescriptorCheck(buf, off, len, header, pos) ==
    IF NotZero(buf, off, len, pos + 1) THEN "Expected 0 in position"
    ELSE IF NotZero(buf, off, len, pos + 3) THEN "Expected 0 in position"
    ELSE LET begin == WordAt(buf, off, pos + 0)
             end == WordAt(buf, off, pos + 2)
         IN IF begin < header.dataStart \/ begin > header.dataEnd
                THEN "Buffer start is out of range"
            ELSE IF end < begin \/ end > header.dataEnd
                THEN "Buffer end is out of range"
            \* new Uint8Array(arrayBuffer, begin + byteOffset, end - begin)
            ELSE IF begin + off < 0 \/ end + off > Len(buf)
                THEN "RangeError"
            ELSE "ok"

\* new Uint8Array(arrayBuffer, begin + byteOffset, end - begin): a view
BufferView(off, begin, end) ==
    [byteOffset |-> begin + off, byteLength |-> end - begin]

\* the bytes a view of buf shows
Bytes(buf, view) == Slice(buf, view.byteOffset, view.byteOffset + view.byteLength)

\* SplitNames without the slice(0, -1)
SplitNamesKeepLast(joinedNames) ==
    IF Len(joinedNames) = 0 THEN <<>> ELSE Split(joinedNames, NUL)

\* joinedNames.slice(0, -1).split('\0'), and [] for an empty joinedNames
SplitNames(joinedNames) ==
    IF Len(joinedNames) = 0 THEN <<>> ELSE Split(DropLast(joinedNames), NUL)

\* NewBFast without the slice(1): the name list stays among the buffers
NewBFastKeepNameList(header, names, buffers) ==
    [status |-> "ok", error |-> "", header |-> header,
     names |-> names, buffers |-> buffers]

\* return new BFast(header, names, buffers.slice(1))
NewBFast(header, names, buffers) ==
    [status |-> "ok", error |-> "", header |-> header,
     names |-> names, buffers |-> Tail(buffers)]

ParseBFast(buf, off, len) ==
    IF ~Int32ArrayOk(buf, off, len) THEN BFastError("RangeError")
    ELSE IF ~BFastHeaderOk(buf, off, len) THEN BFastError("Expected 0 in header")
    ELSE
    LET header == BFastHeaderFromArray(buf, off)
        n == IF header.numArrays > 0 THEN header.numArrays ELSE 0
        check == [i \in 0..(n - 1) |-> DescriptorCheck(buf, off, len, header, 8 + 4 * i)]
        failed == {i \in 0..(n - 1) : check[i] # "ok"}
    IN  IF failed # {}
            THEN BFastError(check[CHOOSE i \in failed : \A j \in failed : i <= j])
        ELSE
        LET buffers == [i \in 1..n |->
                           BufferView(off, WordAt(buf, off, 8 + 4 * (i - 1)),
                                      WordAt(buf, off, 8 + 4 * (i - 1) + 2))]
            \* decode(undefined) is the empty string
            joinedNames == IF n = 0 THEN <<>> ELSE TextDecode(Bytes(buf, buffers[1]))
            names == SplitNames(joinedNames)
        IN  IF Len(names) # Len(buffers) - 1
                THEN BFastError("Expected number of names to be equal to the number of buffers - 1")
            ELSE NewBFast(header, names, buffers)

NoBFast == [status |-> "none", error |-> "", header |-> NoHeader,
            names |-> <<>>, buffers |-> <<>>]

----------------------------------------------------------------------------
(* constructEntityTable *)

\* ':'
Colon == 58

\* 'numeric', 'string', 'index', 'properties' as code points
StrNumeric == <<110, 117, 109, 101, 114, 105, 99>>
StrString == <<115, 116, 114, 105, 110, 103>>
StrIndex == <<105, 110, 100, 101, 120>>
StrProperties == <<112, 114, 111, 112, 101, 114, 116, 105, 101, 115>>

\* the value undefined where a string is expected
Undefined == <<-1>>

\* const tmp = bfast.names[i].split(':'); const columnType = tmp[0]
ColumnType(name) == Split(name, Colon)[1]

\* const columnName = tmp[1]
ColumnName(name) ==
    LET tmp == Split(name, Colon)
    IN IF Len(tmp) >= 2 THEN tmp[2] ELSE Undefined

\* new Float64Array(buffer.buffer, buffer.byteOffset, buffer.byteLength / 8) and
\* new Int32Array(buffer.buffer, buffer.byteOffset, buffer.byteLength / 4):
\* a view of size-byte elements, a RangeError for an offset that is no multiple
\* of size
TypedArrayOk(buffer, size) == buffer.byteOffset % size = 0

TypedArray(type, buffer, size) ==
    [type |-> type, byteOffset |-> buffer.byteOffset,
     length |-> buffer.byteLength \div size]

\* the Uint8Array a BFast holds for a buffer
Uint8Array(buffer) ==
    [type |-> "Uint8Array", byteOffset |-> buffer.byteOffset,
     length |-> buffer.byteLength]

\* the branch of the type dispatch taken for a column: the RangeError or
\* Error thrown, or the key and the value of result.set(key, value)
ColumnEntry(name, buffer) ==
    LET columnType == ColumnType(name)
        columnName == ColumnName(name)
    IN  IF columnType = StrNumeric THEN
            IF ~TypedArrayOk(buffer, 8) THEN [error |-> "RangeError"]
            ELSE [error |-> "", key |-> columnName,
                  value |-> TypedArray("Float64Array", buffer, 8)]
        ELSE IF columnType = StrString \/ columnType = StrIndex THEN
            IF ~TypedArrayOk(buffer, 4) THEN [error |-> "RangeError"]
            ELSE [error |-> "", key |-> columnName,
                  value |-> TypedArray("Int32Array", buffer, 4)]
        ELSE IF columnType = StrProperties THEN
            IF ~TypedArrayOk(buffer, 4) THEN [error |-> "RangeError"]
            ELSE [error |-> "", key |-> StrProperties, value |-> Uint8Array(buffer)]
        ELSE [error |-> "Unrecognized column type"]

\* Map.prototype.set
MapSet(map, key, value) ==
    [k \in DOMAIN map \cup {key} |-> IF k = key THEN value ELSE map[k]]

EmptyMap == [k \in {} |-> 0]

\* the loop of constructEntityTable from column i on, result being the map so far
RECURSIVE EntityTableFrom(_, _, _)
EntityTableFrom(bf, i, result) ==
    IF i > Len(bf.buffers) THEN [status |-> "ok", error |-> "", result |-> result]
    ELSE LET entry == ColumnEntry(bf.names[i], bf.buffers[i])
         IN IF entry.error # ""
                THEN [status |-> "error", error |-> entry.error, result |-> EmptyMap]
            ELSE EntityTableFrom(bf, i + 1, MapSet(result, entry.key, entry.value))

ConstructEntityTable(bf) == EntityTableFrom(bf, 1, EmptyMap)

NoEntityTable == [status |-> "none", error |-> "", result |-> EmptyMap]

----------------------------------------------------------------------------
(* constructVIM: the strings section *)

\* const strings = new TextDecoder('utf-8').decode(stringData).split('\0')
DecodeStrings(data) == Split(TextDecode(data), NUL)

NoStrings == [decoded |-> FALSE, list |-> <<>>]

----------------------------------------------------------------------------
(* load and parse: the path of an exception *)

\* The steps of parse, in the order parse and constructVIM run them, each with
\* the errors its code throws. A step of an empty set cannot throw. An error is
\* an Error object, named here by its message and, for the nested calls of
\* parseBFast, by the section being parsed.
ParseSteps ==
    << [step |-> "parseBFast",
        throws |-> {"Expected 0 in position", "Buffer start is out of range",
                    "Buffer end is out of range",
                    "Expected number of names to be equal to the number of buffers - 1"}],
       [step |-> "constructVIM: buffer count",
        throws |-> {"VIM requires at least five BFast buffers"}],
       [step |-> "constructVIM: parseBFast(geometry)",
        throws |-> {"Buffer start is out of range in geometry"}],
       [step |-> "constructG3D",
        throws |-> {"G3D requires at least two BFast buffers",
                    "First G3D buffer must be named 'meta'"}],
       [step |-> "g3d.validate",
        throws |-> {"Invalid geometry"}],
       [step |-> "constructVIM: parseBFast(assets)",
        throws |-> {"Buffer start is out of range in assets"}],
       [step |-> "constructVIM: parseBFast(entities)",
        throws |-> {"Buffer start is out of range in entities"}],
       [step |-> "constructEntityTables",
        throws |-> {"Buffer start is out of range in table", "Unrecognized column type"}],
       [step |-> "constructVIM: strings",
        throws |-> {}],
       [step |-> "allocateGeometry",
        throws |-> {}],
       [step |-> "countMeshReferences",
        throws |-> {}],
       [step |-> "allocateMeshes",
        throws |-> {}],
       [step |-> "applyMatrices",
        throws |-> {}],
       [step |-> "merge",
        throws |-> {"TypeError in mergeBufferGeometries"}] >>

At(place) == [at |-> place, step |-> 0]
InParse(i) == [at |-> "parse", step |-> i]

NoResponse == [kind |-> "none", fault |-> 0, error |-> ""]

\* onError?.(new ErrorEvent('Unsupported string loader response'))
UnsupportedResponse == [type |-> "Unsupported string loader response", error |-> ""]

\* LoadingError that does not carry the exception
LoadingErrorBare(exception) == [type |-> "Loading Error", error |-> ""]

\* new ErrorEvent('Loading Error', { error: exception })
LoadingError(exception) == [type |-> "Loading Error", error |-> exception]

\* CatchReturn that goes on to the call of onLoad
CatchFallsThrough == At("onLoad")

\* the return that ends the catch block
CatchReturn == At("done")

\* callback?.(argument): the calls made so far, with this one if the callback is given
OptionalCall(calls, name, argument) ==
    IF name \in callbacks THEN Append(calls, argument) ELSE calls

----------------------------------------------------------------------------
(* allocateGeometry *)

\* Arrays are sequences read with a 0-based index. Colour components and
\* alpha are counted in 1/32, so that every value is one a Float32Array holds.
At0(array, i) == array[i + 1]

NoG3d == [positions |-> <<>>, indices |-> <<>>, meshSubmeshes |-> <<>>,
          submeshIndexOffset |-> <<>>, submeshMaterial |-> <<>>,
          materialColors |-> <<>>, colorArity |-> 4,
          instanceMeshes |-> <<>>, instanceTransforms |-> <<>>, matrixArity |-> 16]

\* g3d.getMeshSubmeshRange(mesh): from the mesh's entry of the mesh->submesh
\* table to the next mesh's entry, or to the number of submeshes
GetMeshSubmeshRange(g, m) ==
    <<At0(g.meshSubmeshes, m),
      IF m < Len(g.meshSubmeshes) - 1 THEN At0(g.meshSubmeshes, m + 1)
                                      ELSE Len(g.submeshIndexOffset)>>

\* g3d.getSubmeshIndexRange(submesh): from the submesh's entry of the
\* submesh->index table to the next entry, or to the number of indices
GetSubmeshIndexRange(g, submesh) ==
    <<At0(g.submeshIndexOffset, submesh),
      IF submesh < Len(g.submeshIndexOffset) - 1 THEN At0(g.submeshIndexOffset, submesh + 1)
                                                 ELSE Len(g.indices)>>

\* defaultColor = new THREE.Color(0.5, 0.5, 0.5)
DefaultColor == <<16, 16, 16>>

\* IsTransparent that filters nothing
IsTransparentNever(alpha) == FALSE

\* alpha < 0.9, alpha counted in 1/32
IsTransparent(alpha) == 10 * alpha < 9 * 32

\* getSubmeshColor: the colour of a submesh, or nothing for one to skip
GetSubmeshColor(g, submesh) ==
    LET material == At0(g.submeshMaterial, submesh)
        colorIndex == material * g.colorArity
    IN  IF material < 0 THEN [skip |-> FALSE, rgb |-> DefaultColor]
        ELSE IF IsTransparent(At0(g.materialColors, colorIndex + 3))
            THEN [skip |-> TRUE, rgb |-> <<>>]
        ELSE [skip |-> FALSE, rgb |-> SubSeq(g.materialColors, colorIndex + 1, colorIndex + 3)]

\* Number.MAX_SAFE_INTEGER, which min starts from and is only compared with
MaxSafeInteger == 2147483647

Min2(a, b) == IF a < b THEN a ELSE b
Max2(a, b) == IF a > b THEN a ELSE b

\* submeshColor.toArray(colorBuffer, offset)
ColorToArray(buffer, rgb, offset) ==
    [i \in 1..Len(buffer) |->
        IF i \in (offset + 1)..(offset + 3) THEN rgb[i - offset] ELSE buffer[i]]

\* The body of the loop over the indices of a kept submesh, from index on:
\* st holds indexBuffer, colorBuffer, indexCount, min and max.
RECURSIVE IndexLoop(_, _, _, _, _)
IndexLoop(g, rgb, index, submeshEnd, st) ==
    IF index >= submeshEnd THEN st
    ELSE LET vertex == At0(g.indices, index)
         IN IndexLoop(g, rgb, index + 1, submeshEnd,
                [indexBuffer |-> [st.indexBuffer EXCEPT ![st.indexCount + 1] = vertex],
                 indexCount  |-> st.indexCount + 1,
                 min         |-> Min2(st.min, vertex),
                 max         |-> Max2(st.max, vertex),
                 colorBuffer |-> ColorToArray(st.colorBuffer, rgb, vertex * 3)])

\* The loop over the submeshes of a mesh, from submesh on
RECURSIVE SubmeshLoop(_, _, _, _)
SubmeshLoop(g, submesh, meshEnd, st) ==
    IF submesh >= meshEnd THEN st
    ELSE LET submeshColor == GetSubmeshColor(g, submesh)
             range == GetSubmeshIndexRange(g, submesh)
         IN IF submeshColor.skip THEN SubmeshLoop(g, submesh + 1, meshEnd, st)
            ELSE SubmeshLoop(g, submesh + 1, meshEnd,
                             IndexLoop(g, submeshColor.rgb, range[1], range[2], st))

\* Rebase that leaves the index as it is
RebaseNot(vertex, min) == vertex

\* indexBuffer[i] -= min
Rebase(vertex, min) == vertex - min

\* a subarray: the view [begin, end) of an array
Subarray(begin, end) == [begin |-> begin, end |-> end]

\* The values an array holds in a view of it
ViewOf(array, view) == SubSeq(array, view.begin + 1, view.end)

\* A sphere around points of the x axis is held as the segment of that axis
\* it covers: its centre is (min + max) / 2, its radius (max - min) / 2.
\* new THREE.Sphere() has centre 0 and radius -1.
EmptySphere == [min |-> 1, max |-> -1]

\* geometry.boundingSphere of a geometry whose sphere was never computed
NoSphere == [min |-> 0, max |-> -2]

\* the x coordinates of an array of positions
XsOf(positions) == {positions[3 * k + 1] : k \in 0..((Len(positions) \div 3) - 1)}

\* geometry.computeBoundingSphere(): the centre is the centre of the bounding
\* box of the position attribute, the radius the greatest distance from it
ComputeBoundingSphere(positions) ==
    [min |-> MinOf(XsOf(positions)), max |-> MaxOf(XsOf(positions))]

\* resultMeshes.push(null)
NullMesh == [isNull |-> TRUE, position |-> Subarray(0, 0), index |-> <<>>,
             color |-> Subarray(0, 0), boundingSphere |-> NoSphere]

\* createBufferGeometry(vertices, indices, vertexColors): the position and
\* colour attributes keep the views they are given, of g3d.positions and of
\* colorBuffer; Uint32BufferAttribute copies the indices
CreateBufferGeometry(vertices, indices, vertexColors) ==
    [isNull |-> FALSE, position |-> vertices, index |-> indices, color |-> vertexColors,
     boundingSphere |-> NoSphere]

----------------------------------------------------------------------------
(* countMeshReferences, allocateMeshes, applyMatrices and the merging of parse *)

\* Increment that counts a mesh index past the array for the last mesh
IncrementClamped(array, i) ==
    IF i >= 0 /\ i < Len(array) THEN [array EXCEPT ![i + 1] = @ + 1]
    ELSE IF i >= Len(array) /\ Len(array) > 0 THEN [array EXCEPT ![Len(array)] = @ + 1]
    ELSE array

\* meshRefCounts[mesh]++ that counts twice
IncrementTwice(array, i) ==
    IF i >= 0 /\ i < Len(array) THEN [array EXCEPT ![i + 1] = @ + 2] ELSE array

\* meshRefCounts[mesh]++ and instanceCounters[meshIndex]++ on an Int32Array:
\* a write outside the array is ignored
Increment(array, i) ==
    IF i >= 0 /\ i < Len(array) THEN [array EXCEPT ![i + 1] = @ + 1] ELSE array

\* the loop of countMeshReferences from instance i on
RECURSIVE CountLoop(_, _, _)
CountLoop(instanceMeshes, i, counts) ==
    IF i >= Len(instanceMeshes) THEN counts
    ELSE LET m == At0(instanceMeshes, i)
         IN IF m < 0 THEN CountLoop(instanceMeshes, i + 1, counts)
            ELSE CountLoop(instanceMeshes, i + 1, Increment(counts, m))

CountMeshReferences(instanceMeshes, meshCount) ==
    CountLoop(instanceMeshes, 0, [k \in 1..meshCount |-> 0])

\* the count of a mesh to merge, for every referenced mesh
IsSingleOrMore(count) == count >= 1

\* meshRefCounts[meshIndex] === 1
IsSingle(count) == count = 1

\* A 4x4 matrix is its 16 elements in the order of Matrix4.elements
Identity == [k \in 1..16 |-> IF k \in {1, 6, 11, 16} THEN 1 ELSE 0]
ZeroMatrix == [k \in 1..16 |-> 0]
Translation(tx) == [Identity EXCEPT ![13] = tx]

\* meshes.push(null), and meshes[meshIndex] of an index outside the array
NullInstancedMesh ==
    [isNull |-> TRUE, id |-> -1, geometry |-> -1, count |-> 0, instanceMatrix |-> <<>>]

\* new THREE.InstancedMesh(geometry, material, count): the geometry is held
\* by reference, here the index of the slice in resultMeshes; the instance
\* matrices start as zeros
NewInstancedMesh(id, geometry, count) ==
    [isNull |-> FALSE, id |-> id, geometry |-> geometry, count |-> count,
     instanceMatrix |-> [slot \in 1..count |-> ZeroMatrix]]

\* the loop of allocateMeshes from mesh i on; st holds meshes and the next id
RECURSIVE AllocateMeshesLoop(_, _, _, _)
AllocateMeshesLoop(geometries, counts, i, st) ==
    IF i >= Len(geometries) THEN st
    ELSE LET count == At0(counts, i)
         IN IF count <= 1 \/ At0(geometries, i).isNull
                THEN AllocateMeshesLoop(geometries, counts, i + 1,
                        [st EXCEPT !.meshes = Append(@, NullInstancedMesh)])
            ELSE AllocateMeshesLoop(geometries, counts, i + 1,
                        [meshes |-> Append(st.meshes, NewInstancedMesh(st.nextId, i, count)),
                         nextId |-> st.nextId + 1])

AllocateMeshes(geometries, counts, nextId) ==
    AllocateMeshesLoop(geometries, counts, 0, [meshes |-> <<>>, nextId |-> nextId])

\* array[i] of a plain array: undefined outside it, which the loops treat
\* as they treat null
ArrayAt(array, i, undefined) ==
    IF i >= 0 /\ i < Len(array) THEN array[i + 1] ELSE undefined

\* Array.from(instanceTransforms.subarray(i * arity, (i + 1) * arity))
MatrixAsArray(instanceTransforms, i, arity) ==
    SubSeq(instanceTransforms, i * arity + 1, (i + 1) * arity)

\* setMatrixAt that writes the first slot whatever the slot
SetMatrixAtFirst(m, slot, matrix) ==
    IF m.count > 0 THEN [m EXCEPT !.instanceMatrix = [@ EXCEPT ![1] = matrix]] ELSE m

\* mesh.setMatrixAt(slot, matrix)
SetMatrixAt(m, slot, matrix) ==
    IF slot >= 0 /\ slot < m.count
        THEN [m EXCEPT !.instanceMatrix = [@ EXCEPT ![slot + 1] = matrix]]
        ELSE m

\* Vector3.applyMatrix4 on the point (x, 0, 0), its x coordinate: the
\* generated matrices keep the x axis and have w = 1
ApplyMatrix4(x, e) == (e[1] * x + e[13]) \div (e[4] * x + e[16])

\* the square root of a square
ISqrt(n) == CHOOSE r \in 0..n : r * r = n

\* matrix.getMaxScaleOnAxis()
MaxScaleOnAxis(e) ==
    ISqrt(MaxOf({e[1] * e[1] + e[2] * e[2] + e[3] * e[3],
                 e[5] * e[5] + e[6] * e[6] + e[7] * e[7],
                 e[9] * e[9] + e[10] * e[10] + e[11] * e[11]}))

\* sphere.applyMatrix4(matrix): the centre is transformed, the radius scaled.
\* With twice the centre c2 and twice the radius r2:
SphereApplyMatrix4(sphere, e) ==
    LET c2 == sphere.min + sphere.max
        r2 == (sphere.max - sphere.min) * MaxScaleOnAxis(e)
        centre2 == ApplyMatrix4(c2, [e EXCEPT ![13] = 2 * e[13]])
    IN [min |-> (centre2 - r2) \div 2, max |-> (centre2 + r2) \div 2]

\* sphere.expandByPoint(point)
ExpandByPoint(sphere, x) ==
    [min |-> Min2(sphere.min, x), max |-> Max2(sphere.max, x)]

\* this.union(sphere): encloses the farthest point of the other sphere, seen
\* from this centre, and the point opposite to it. Between spheres of one
\* centre the direction is the zero vector and both points are that centre.
SphereUnion(this, sphere) ==
    IF this.min + this.max = sphere.min + sphere.max
        THEN ExpandByPoint(this, (sphere.min + sphere.max) \div 2)
        ELSE ExpandByPoint(ExpandByPoint(this, sphere.max), sphere.min)

\* new VimSceneGeometry(resultMeshes, boundingSphere, nodeIndexToMeshInstance,
\* meshIdToNodeIndex): meshes are held by reference, here their ids;
\* boundingSphere is the null of applyMatrices while isNull
NoSceneGeometry ==
    [meshes |-> <<>>, isNull |-> TRUE, boundingSphere |-> EmptySphere,
     nodeIndexToMeshInstance |-> EmptyMap, meshIdToNodeIndex |-> EmptyMap]

\* geometry.applyMatrix4(matrix) on the position attribute: every vertex of
\* the view is transformed in place, in the array the view is of
ApplyMatrix4InPlace(positions, view, e) ==
    [k \in 1..Len(positions) |->
        IF k > view.begin /\ k <= view.end /\ k % 3 = 1
            THEN ApplyMatrix4(positions[k], e) ELSE positions[k]]

\* BufferGeometryUtils.mergeBufferGeometries(geometries): new arrays of the
\* positions and colours of the geometries one after the other, and of their
\* indices, each moved by the number of vertices before its geometry
RECURSIVE MergeFrom(_, _, _, _, _)
MergeFrom(geometries, k, positions, colors, merged) ==
    IF k > Len(geometries) THEN merged
    ELSE LET geometry == geometries[k]
             offset == Len(merged.position) \div 3
         IN MergeFrom(geometries, k + 1, positions, colors,
                [position |-> merged.position \o ViewOf(positions, geometry.position),
                 index |-> merged.index \o [j \in 1..Len(geometry.index) |->
                                               geometry.index[j] + offset],
                 color |-> merged.color \o ViewOf(colors, geometry.color),
                 boundingSphere |-> NoSphere])

NoGeometry == [position |-> <<>>, index |-> <<>>, color |-> <<>>, boundingSphere |-> NoSphere]

MergeBufferGeometries(geometries, positions, colors) ==
    MergeFrom(geometries, 1, positions, colors, NoGeometry)

\* no merged mesh yet
NoBigMesh == [isNull |-> TRUE, id |-> -1, geometry |-> NoGeometry, count |-> 0,
              instanceMatrix |-> <<>>]

\* no VimScene
NoScene == [returned |-> FALSE]

----------------------------------------------------------------------------
(* Viewer.getElementNameFromNodeIndex *)

\* Table and column names are written as strings here.
NoVim == [bim |-> EmptyMap, strings |-> <<>>]

\* the call has not been made
NotCalled == [called |-> FALSE, threw |-> FALSE, defined |-> FALSE, name |-> ""]

\* a value that is undefined, and a number
UndefinedNumber == [defined |-> FALSE, value |-> 0]
Number(n) == [defined |-> TRUE, value |-> n]

\* array[index] of a typed array or of a plain array, index being a number
\* or undefined: undefined unless index is one of the array
ElementAt(array, index) ==
    IF index.defined /\ index.value >= 0 /\ index.value < Len(array)
        THEN Number(array[index.value + 1])
        ELSE UndefinedNumber

\* a TypeError: get of undefined, or an index into undefined
Threw == [called |-> TRUE, threw |-> TRUE, defined |-> FALSE, name |-> ""]

\* return name, which is undefined where strings has no such index
Returned(table, stringIndex) ==
    IF stringIndex.defined /\ stringIndex.value >= 0 /\ stringIndex.value < Len(table)
        THEN [called |-> TRUE, threw |-> FALSE, defined |-> TRUE,
              name |-> table[stringIndex.value + 1]]
        ELSE [called |-> TRUE, threw |-> FALSE, defined |-> FALSE, name |-> ""]

\* map.get(key) is undefined
Missing(map, key) == key \notin DOMAIN map

\* getElementNameFromNodeIndex(nodeIndex)
GetElementNameFromNodeIndex(v, index) ==
    IF Missing(v.bim, "Vim.Node") THEN Threw
    ELSE IF Missing(v.bim["Vim.Node"], "Rvt.Element") THEN Threw
    ELSE LET elementIndex == ElementAt(v.bim["Vim.Node"]["Rvt.Element"], Number(index))
         IN IF Missing(v.bim, "Rvt.Element") THEN Threw
            ELSE IF Missing(v.bim["Rvt.Element"], "Name") THEN Threw
            ELSE Returned(v.strings, ElementAt(v.bim["Rvt.Element"]["Name"], elementIndex))

----------------------------------------------------------------------------
(* Containers given to parseBFast *)

\* code points of generated names: 'a' and U+FEFF
NameChars == {97, BOM}
NameSet == SeqsUpTo(NameChars, MaxNameLen)
\* contents of generated buffers
PayloadSet == {<<>>, <<0>>, <<7, 0>>}
\* bytes before the container in its ArrayBuffer
PadSet == {0, 4}

RECURSIVE SumLen(_)
SumLen(ss) == IF ss = <<>> THEN 0 ELSE Len(Head(ss)) + SumLen(Tail(ss))

\* the name list of a container: every name followed by NUL
JoinNames(names) ==
    Concat([i \in 1..Len(names) |-> Utf8Encode(names[i]) \o <<NUL>>])

\* A container of the named buffers: header, one descriptor [begin, 0, end, 0]
\* per array, then the arrays back to back, the name list first.
EncodeBFast(names, payloads, pad) ==
    LET arrays == <<JoinNames(names)>> \o payloads
        n == Len(arrays)
        dataStart == 32 + 16 * n
        begin(i) == dataStart + SumLen(SubSeq(arrays, 1, i - 1))
        header == <<0, 0, dataStart, 0, dataStart + SumLen(arrays), 0, n, 0>>
        descriptors == Concat([i \in 1..n |->
                                  <<begin(i), 0, begin(i) + Len(arrays[i]), 0>>])
        words == header \o descriptors
    IN  [i \in 1..pad |-> 255]
            \o Concat([i \in 1..Len(words) |-> WordBytes(words[i])])
            \o Concat(arrays)

\* a container with word w overwritten by v
Overwrite(buf, off, w, v) ==
    [i \in 1..Len(buf) |->
        IF i \in (off + 4 * w + 1)..(off + 4 * w + 4)
            THEN WordBytes(v)[i - off - 4 * w] ELSE buf[i]]

\* the containers whose words are overwritten: k buffers "a" of two bytes
DamagedBase(k, pad) == EncodeBFast([i \in 1..k |-> <<97>>], [i \in 1..k |-> <<7, 0>>], pad)

\* values written over a word: small ones and offsets around the data region
DamageValues(k) == {-1, 0, 1, 2} \cup ((32 + 16 * (k + 1) - 1)..(32 + 16 * (k + 1) + 4 * k + 1))

DecodeIdle ==
    /\ tableBFast = NoBFast /\ entityTable = NoEntityTable
    /\ stringData = <<>> /\ strings = NoStrings

LoadIdle ==
    /\ response = NoResponse /\ callbacks = {} /\ pc = At("idle") /\ thrown = ""
    /\ vimScene = FALSE /\ onLoadCalls = <<>> /\ onErrorCalls = <<>>

GeometryIdle ==
    /\ g3d = NoG3d /\ mesh = 0 /\ colorBuffer = <<>> /\ indexBuffer = <<>>
    /\ resultMeshes = <<>>

SceneIdle ==
    /\ stage = "idle" /\ instance = 0 /\ meshRefCounts = <<>> /\ rawMeshes = <<>>
    /\ instanceCounters = <<>> /\ sceneGeometry = NoSceneGeometry
    /\ singles = <<>> /\ bigMesh = NoBigMesh /\ object3DId = 0
    /\ scene = NoScene /\ firstScene = NoScene

ViewerIdle == vim = NoVim /\ nodeIndex = 0 /\ elementName = NotCalled

\* no handler of InputTouch has run
NoGesture == [handler |-> "none", touches |-> 0, called |-> "none"]

\* private touchStart: THREE.Vector2 = undefined, and the three fields after it
TouchIdle ==
    /\ touchStart = Undefined /\ touchStart1 = Undefined /\ touchStart2 = Undefined
    /\ touchStartTime = Undefined /\ fingers = 0 /\ gesture = NoGesture

\* nothing was hit
NoHit == [instanceIndices |-> Undefined, instanceId |-> 0]
\* select has not run
NotSelected == [called |-> FALSE, isNull |-> TRUE, value |-> 0]

SelectIdle == hit = NoHit /\ selection = NotSelected

\* the container in arrayBuffer is no plain encoding
NotEncoded == [intact |-> FALSE, names |-> <<>>, payloads |-> <<>>]

BFastIdle ==
    /\ arrayBuffer = <<>> /\ byteOffset = 0 /\ byteLength = 0 /\ bfast = NoBFast
    /\ encoded = NotEncoded

InitBFast ==
    /\ \E pad \in PadSet :
        /\ byteOffset = pad
        /\ \/ \E n \in 0..MaxBuffers :
                \E names \in [1..n -> NameSet], payloads \in [1..n -> PayloadSet] :
                    /\ arrayBuffer = EncodeBFast(names, payloads, pad)
                    /\ encoded = [intact |-> TRUE, names |-> names, payloads |-> payloads]
           \/ \E k \in 0..MaxBuffers :
                \E w \in 0..(8 + 4 * (k + 1) - 1), v \in DamageValues(k) :
                    /\ arrayBuffer = Overwrite(DamagedBase(k, pad), pad, w, v)
                    /\ encoded = NotEncoded
    /\ byteLength = Len(arrayBuffer) - byteOffset
    /\ bfast = NoBFast
    /\ DecodeIdle /\ LoadIdle /\ GeometryIdle /\ SceneIdle /\ ViewerIdle /\ TouchIdle /\ SelectIdle

\* const bfast = this.parseBFast(data, byteOffset, byteLength)
ParseBFastCall ==
    /\ bfast.status = "none"
    /\ bfast' = ParseBFast(arrayBuffer, byteOffset, byteLength)
    /\ UNCHANGED <<arrayBuffer, byteOffset, byteLength, encoded>>
    /\ UNCHANGED <<selectVars, touchVars, viewerVars, decodeVars, loadVars, geometryVars, sceneVars>>

NextBFast == ParseBFastCall

SpecBFast == InitBFast /\ [][NextBFast]_vars

----------------------------------------------------------------------------
(* Properties of parseBFast *)

\* C1 as stated: a returned Container has names.length = buffers.length + 1
\* and header.numArrays = buffers.length.
C1_CountsAsStated ==
    bfast.status = "ok" =>
        /\ Len(bfast.names) = Len(bfast.buffers) + 1
        /\ bfast.header.numArrays = Len(bfast.buffers)

\* C1 amended: a returned Container has one name per buffer, and the header's
\* numArrays counts the name list too: names.length = buffers.length and
\* header.numArrays = buffers.length + 1.
C1_ContainerCounts ==
    bfast.status = "ok" =>
        /\ Len(bfast.names) = Len(bfast.buffers)
        /\ bfast.header.numArrays = Len(bfast.buffers) + 1

C1_Witness == bfast.status = "ok" /\ Len(bfast.buffers) >= 2

\* parseBFast returned names and buffers equal to the encoded ones
RoundTrips ==
    /\ bfast.status = "ok"
    /\ bfast.names = encoded.names
    /\ Len(bfast.buffers) = Len(encoded.payloads)
    /\ \A i \in 1..Len(encoded.payloads) :
          Bytes(arrayBuffer, bfast.buffers[i]) = encoded.payloads[i]

StartsWithBOM(names) == names # <<>> /\ names[1] # <<>> /\ names[1][1] = BOM

\* C2 as stated: decoding the encoding of any N >= 0 named buffers, the names
\* free of NUL, gives back the same names and the same bytes.
C2_RoundTripAsStated ==
    (bfast.status # "none" /\ encoded.intact) => RoundTrips

\* C2 amended: the round trip holds for names free of NUL when the first name
\* does not begin with U+FEFF, which the UTF-8 decoder drops as a byte order
\* mark at the start of the name list.
C2_RoundTrip ==
    (bfast.status # "none" /\ encoded.intact /\ ~StartsWithBOM(encoded.names))
        => RoundTrips

C2_Witness ==
    /\ encoded.intact /\ byteOffset > 0
    /\ Len(encoded.names) >= 2 /\ encoded.names[2] = <<BOM>>
    /\ encoded.payloads[1] = <<7, 0>>
    /\ RoundTrips

\* descriptor i of the container in arrayBuffer is [begin, 0, end, 0] with
\* dataStart <= begin <= dataEnd and begin <= end <= dataEnd
DescriptorValid(i) ==
    LET pos == 8 + 4 * i
        w(k) == WordAt(arrayBuffer, byteOffset, k)
    IN  /\ HasWord(byteLength, pos + 3)
        /\ w(pos + 1) = 0 /\ w(pos + 3) = 0
        /\ w(2) <= w(pos) /\ w(pos) <= w(4)
        /\ w(pos) <= w(pos + 2) /\ w(pos + 2) <= w(4)

\* C3: parseBFast returns a Container only if each of the numArrays
\* descriptors is valid; with an invalid descriptor it fails.
C3_DescriptorsValidated ==
    /\ bfast.status = "ok" =>
          \A i \in 0..(bfast.header.numArrays - 1) : DescriptorValid(i)
    /\ (/\ bfast.status # "none"
        /\ HasWord(byteLength, 7)
        /\ \E i \in 0..(WordAt(arrayBuffer, byteOffset, 6) - 1) : ~DescriptorValid(i))
          => bfast.status = "error"

C3_Witness ==
    /\ bfast.status = "error"
    /\ bfast.error = "Buffer end is out of range"
    /\ DescriptorValid(0) /\ ~DescriptorValid(1)

Overlap(a, b) ==
    /\ a.byteOffset < b.byteOffset + b.byteLength
    /\ b.byteOffset < a.byteOffset + a.byteLength

\* C4: the buffers of a returned Container do not overlap pairwise and their
\* start offsets do not decrease in stored order.
C4_RangesDisjointAndOrdered ==
    bfast.status = "ok" =>
        \A i, j \in 1..Len(bfast.buffers) :
            i < j => /\ ~Overlap(bfast.buffers[i], bfast.buffers[j])
                     /\ bfast.buffers[i].byteOffset <= bfast.buffers[j].byteOffset

----------------------------------------------------------------------------
(* Tables given to constructEntityTable, sections given to constructVIM *)

\* most columns of a generated table
MaxColumns == 2
\* most strings of a generated strings section
MaxStrings == 2

\* 'a', 'b', 'x'
Ch == [a |-> 97, b |-> 98, x |-> 120]
ChA == Ch.a
ChB == Ch.b
ChX == Ch.x

\* names of generated columns: type:name, with a name that may hold a ':',
\* an unknown type, and a name with no ':'
ColumnNames ==
    {StrNumeric \o <<Colon, ChA>>,
     StrNumeric \o <<Colon, ChA, Colon, ChB>>,
     StrString \o <<Colon, ChA>>,
     StrIndex \o <<Colon, ChB>>,
     StrProperties \o <<Colon, ChA>>,
     StrProperties \o <<Colon, ChB>>,
     <<ChX, Colon, ChA>>,
     StrNumeric}

\* byte ranges of generated columns
ColumnBuffers ==
    {[byteOffset |-> 0, byteLength |-> 8],
     [byteOffset |-> 8, byteLength |-> 16],
     [byteOffset |-> 4, byteLength |-> 6]}

\* the container of a table of the named columns
TableOf(names, buffers) ==
    [status |-> "ok", error |-> "", header |-> NoHeader, names |-> names, buffers |-> buffers]

\* generated strings: '', 'a', 'ab'
StringSet == {<<>>, <<ChA>>, <<ChA, ChB>>}
StringLists(n) == SeqsUpTo(StringSet, n)

InitDecode ==
    /\ \E n \in 0..MaxColumns :
          \E names \in [1..n -> ColumnNames], buffers \in [1..n -> ColumnBuffers] :
              tableBFast = TableOf(names, buffers)
    /\ entityTable = NoEntityTable
    /\ \E list \in StringLists(MaxStrings) : stringData = JoinNames(list)
    /\ strings = NoStrings
    /\ BFastIdle /\ LoadIdle /\ GeometryIdle /\ SceneIdle /\ ViewerIdle /\ TouchIdle /\ SelectIdle

\* const next = this.constructEntityTable(bfast)
ConstructEntityTableCall ==
    /\ entityTable.status = "none"
    /\ entityTable' = ConstructEntityTable(tableBFast)
    /\ UNCHANGED <<tableBFast, stringData, strings>>
    /\ UNCHANGED <<selectVars, touchVars, viewerVars, bfastVars, loadVars, geometryVars, sceneVars>>

\* constructVIM, from 'Decoding strings' on
DecodeStringsStep ==
    /\ ~strings.decoded
    /\ strings' = [decoded |-> TRUE, list |-> DecodeStrings(stringData)]
    /\ UNCHANGED <<tableBFast, entityTable, stringData>>
    /\ UNCHANGED <<selectVars, touchVars, viewerVars, bfastVars, loadVars, geometryVars, sceneVars>>

NextDecode == ConstructEntityTableCall \/ DecodeStringsStep

SpecDecode == InitDecode /\ [][NextDecode]_vars

----------------------------------------------------------------------------
(* Properties of constructEntityTable and of the strings section *)

HasColon(name) == \E i \in 1..Len(name) : name[i] = Colon

FirstColon(name) == CHOOSE i \in 1..Len(name) : name[i] = Colon /\ \A j \in 1..(i - 1) : name[j] # Colon

\* the text before the first ':' and the whole text after it
TagOf(name) == SubSeq(name, 1, FirstColon(name) - 1)
RemainderOf(name) == SubSeq(name, FirstColon(name) + 1, Len(name))

\* C5: for a buffer named T:R constructEntityTable takes T, the text before
\* the first ':', for the type tag and the whole remainder R for the column
\* name, also when R holds a ':'.
C5_TagAndRemainder ==
    entityTable.status # "none" =>
        \A i \in 1..Len(tableBFast.names) :
            HasColon(tableBFast.names[i]) =>
                /\ ColumnType(tableBFast.names[i]) = TagOf(tableBFast.names[i])
                /\ ColumnName(tableBFast.names[i]) = RemainderOf(tableBFast.names[i])

\* the view the claim gives a column of the type
ViewByType(tag, buffer) ==
    IF tag = StrNumeric THEN TypedArray("Float64Array", buffer, 8)
    ELSE IF tag = StrProperties THEN Uint8Array(buffer)
    ELSE TypedArray("Int32Array", buffer, 4)

\* C6: the returned column map has one entry per inner buffer, under the
\* buffer's column name, holding the buffer's data in the view of its type;
\* k distinctly named columns give k entries.
C6_EntryPerColumn ==
    LET names == tableBFast.names
        distinct == \A i, j \in 1..Len(names) :
                        i # j => RemainderOf(names[i]) # RemainderOf(names[j])
    IN  (/\ entityTable.status = "ok"
         /\ \A i \in 1..Len(names) : HasColon(names[i])
         /\ distinct)
            => /\ Cardinality(DOMAIN entityTable.result) = Len(names)
               /\ \A i \in 1..Len(names) :
                    /\ RemainderOf(names[i]) \in DOMAIN entityTable.result
                    /\ entityTable.result[RemainderOf(names[i])]
                          = ViewByType(TagOf(names[i]), tableBFast.buffers[i])

\* C7: the strings section is split by the rule of the container's name list:
\* one trailing NUL is dropped before splitting, so a section of k
\* NUL-terminated strings decodes to those k strings and an empty one to none.
C7_StringsSplitLikeNames ==
    strings.decoded =>
        /\ strings.list = SplitNames(TextDecode(stringData))
        /\ \A list \in StringLists(MaxStrings) :
              stringData = JoinNames(list) => strings.list = list

----------------------------------------------------------------------------
(* load *)

\* what the FileLoader answers: a string, a failed request, or bytes, of which
\* parse fails at step fault with error, or does not fail (fault = 0)
Responses ==
    {[kind |-> "string", fault |-> 0, error |-> ""],
     [kind |-> "failed", fault |-> 0, error |-> ""],
     [kind |-> "arraybuffer", fault |-> 0, error |-> ""]}
    \cup {[kind |-> "arraybuffer", fault |-> i, error |-> e] :
            i \in 1..Len(ParseSteps), e \in UNION {ParseSteps[j].throws : j \in 1..Len(ParseSteps)}}

InitLoad ==
    /\ response \in {r \in Responses : r.fault > 0 => r.error \in ParseSteps[r.fault].throws}
    /\ callbacks \in SUBSET {"onLoad", "onError"}
    /\ pc = At("load")
    /\ thrown = ""
    /\ vimScene = FALSE
    /\ onLoadCalls = <<>>
    /\ onErrorCalls = <<>>
    /\ BFastIdle /\ DecodeIdle /\ GeometryIdle /\ SceneIdle /\ ViewerIdle /\ TouchIdle /\ SelectIdle

LoadUnchanged ==
    UNCHANGED <<selectVars, touchVars, viewerVars, response, callbacks, bfastVars, decodeVars, geometryVars, sceneVars>>

\* loader.load(url, ..., onProgress, onError): the request fails and the
\* FileLoader calls the onError it was given
RequestFails ==
    /\ pc = At("load") /\ response.kind = "failed"
    /\ onErrorCalls' = OptionalCall(onErrorCalls, "onError", [type |-> "error", error |-> ""])
    /\ pc' = At("done")
    /\ UNCHANGED <<thrown, vimScene, onLoadCalls>>
    /\ LoadUnchanged

\* the response callback, up to the call of parse
DataArrived ==
    /\ pc = At("load") /\ response.kind \in {"string", "arraybuffer"}
    /\ IF response.kind = "string"
          THEN /\ onErrorCalls' = OptionalCall(onErrorCalls, "onError", UnsupportedResponse)
               /\ pc' = At("done")
          ELSE /\ onErrorCalls' = onErrorCalls
               /\ pc' = InParse(1)
    /\ UNCHANGED <<thrown, vimScene, onLoadCalls>>
    /\ LoadUnchanged

\* a step of parse throws: nothing in parse or constructVIM catches, so the
\* exception reaches the catch of the response callback
StepThrows ==
    /\ pc.at = "parse" /\ response.fault = pc.step
    /\ thrown' = response.error
    /\ pc' = At("catch")
    /\ UNCHANGED <<vimScene, onLoadCalls, onErrorCalls>>
    /\ LoadUnchanged

\* a step of parse returns; after the last one parse returns the VimScene
StepReturns ==
    /\ pc.at = "parse" /\ response.fault # pc.step
    /\ IF pc.step < Len(ParseSteps)
          THEN pc' = InParse(pc.step + 1) /\ vimScene' = vimScene
          ELSE pc' = At("onLoad") /\ vimScene' = TRUE
    /\ UNCHANGED <<thrown, onLoadCalls, onErrorCalls>>
    /\ LoadUnchanged

\* catch (exception) { ...; onError?.(new ErrorEvent(...)); return }
Catch ==
    /\ pc = At("catch")
    /\ onErrorCalls' = OptionalCall(onErrorCalls, "onError", LoadingError(thrown))
    /\ pc' = CatchReturn
    /\ UNCHANGED <<thrown, vimScene, onLoadCalls>>
    /\ LoadUnchanged

\* onLoad?.(vim)
CallOnLoad ==
    /\ pc = At("onLoad")
    /\ onLoadCalls' = OptionalCall(onLoadCalls, "onLoad", [vim |-> vimScene])
    /\ pc' = At("done")
    /\ UNCHANGED <<thrown, vimScene, onErrorCalls>>
    /\ LoadUnchanged

NextLoad ==
    \/ RequestFails
    \/ DataArrived
    \/ StepThrows
    \/ StepReturns
    \/ Catch
    \/ CallOnLoad

SpecLoad == InitLoad /\ [][NextLoad]_vars

StepIndex(name) == CHOOSE i \in 1..Len(ParseSteps) : ParseSteps[i].step = name

\* a step of container parsing, entity-table decoding or geometry decoding
\* and validation
DecodingSteps == StepIndex("parseBFast")..StepIndex("constructEntityTables")

\* C8: when a decoding step fails, parse aborts with the error of that step
\* and makes no VimScene; load then calls onError once, with that error, and
\* never onLoad; when parse succeeds load calls onLoad once and never onError.
\* (A call is made when the callback was given to load.)
C8_AllOrNothing ==
    /\ thrown # "" => thrown = response.error /\ ~vimScene
    /\ (pc = At("done") /\ response.fault \in DecodingSteps) =>
          /\ thrown = response.error
          /\ ~vimScene
          /\ onLoadCalls = <<>>
          /\ onErrorCalls = IF "onError" \in callbacks
                               THEN <<[type |-> "Loading Error", error |-> response.error]>>
                               ELSE <<>>
    /\ (pc = At("done") /\ response.kind = "arraybuffer" /\ response.fault = 0) =>
          /\ thrown = ""
          /\ onErrorCalls = <<>>
          /\ onLoadCalls = IF "onLoad" \in callbacks THEN <<[vim |-> TRUE]>> ELSE <<>>
    /\ Len(onLoadCalls) + Len(onErrorCalls) <= 1

C8_Witness ==
    /\ pc = At("done") /\ response.fault = StepIndex("constructEntityTables")
    /\ response.error = "Unrecognized column type"
    /\ callbacks = {"onLoad", "onError"}
    /\ Len(onErrorCalls) = 1

----------------------------------------------------------------------------
(* allocateGeometry: geometries and the loop over the meshes *)

\* indices of a generated geometry
MaxIndices == 3
\* most meshes of a generated geometry
MaxMeshes == 2

\* vertices and submeshes of a generated geometry
VertexIds == {0, 1, 2}
SubmeshIds == {0, 1}

\* the vertices lie on the x axis, vertex v at VertexX[v + 1]
VertexX == <<0, 4, 12>>

\* material 0 is red with alpha 29/32, material 1 green with alpha 28/32
Materials == <<32, 0, 0, 29, 0, 32, 0, 28>>

\* offset tables: from 0 on, not decreasing, within 0..top
OffsetTables(n, top) ==
    {t \in [1..n -> 0..top] : t[1] = 0 /\ \A i \in 1..(n - 1) : t[i] <= t[i + 1]}

\* a geometry of the given tables, as g3d.validate() accepts it: indices of
\* existing vertices, offset tables that do not decrease, materials that
\* exist or -1
G3dOf(ix, ms, so, sm) ==
    [positions |-> Concat([v \in 1..Cardinality(VertexIds) |-> <<VertexX[v], 0, 0>>]),
     indices |-> ix, meshSubmeshes |-> ms, submeshIndexOffset |-> so,
     submeshMaterial |-> sm, materialColors |-> Materials, colorArity |-> 4,
     instanceMeshes |-> <<>>, instanceTransforms |-> <<>>, matrixArity |-> 16]

InitGeometry ==
    /\ \E ix \in [1..MaxIndices -> VertexIds],
          so \in OffsetTables(Cardinality(SubmeshIds), MaxIndices),
          sm \in [1..Cardinality(SubmeshIds) -> {-1, 0, 1}],
          n \in 1..MaxMeshes :
            \E ms \in OffsetTables(n, Cardinality(SubmeshIds)) :
                g3d = G3dOf(ix, ms, so, sm)
    /\ mesh = 0
    /\ colorBuffer = [i \in 1..Len(g3d.positions) |-> 0]
    /\ indexBuffer = [i \in 1..Len(g3d.indices) |-> 0]
    /\ resultMeshes = <<>>
    /\ BFastIdle /\ DecodeIdle /\ LoadIdle /\ SceneIdle /\ ViewerIdle /\ TouchIdle /\ SelectIdle

\* one pass of the loop over the meshes of allocateGeometry
AllocateGeometryMesh ==
    /\ g3d # NoG3d
    /\ mesh < Len(g3d.meshSubmeshes)
    /\ LET range == GetMeshSubmeshRange(g3d, mesh)
           st == SubmeshLoop(g3d, range[1], range[2],
                    [indexBuffer |-> indexBuffer, colorBuffer |-> colorBuffer,
                     indexCount |-> 0, min |-> MaxSafeInteger, max |-> 0])
           sliceStart == st.min * 3
           sliceEnd == (st.max + 1) * 3
           rebased == [i \in 1..Len(st.indexBuffer) |->
                          IF i <= st.indexCount THEN Rebase(st.indexBuffer[i], st.min)
                                                ELSE st.indexBuffer[i]]
       IN  /\ colorBuffer' = st.colorBuffer
           /\ IF st.indexCount = 0
                 THEN /\ indexBuffer' = st.indexBuffer
                      /\ resultMeshes' = Append(resultMeshes, NullMesh)
                 ELSE /\ indexBuffer' = rebased
                      /\ resultMeshes' = Append(resultMeshes,
                            [CreateBufferGeometry(Subarray(sliceStart, sliceEnd),
                                                  SubSeq(rebased, 1, st.indexCount),
                                                  Subarray(sliceStart, sliceEnd))
                                EXCEPT !.boundingSphere = ComputeBoundingSphere(
                                    ViewOf(g3d.positions, Subarray(sliceStart, sliceEnd)))])
    /\ mesh' = mesh + 1
    /\ UNCHANGED g3d
    /\ UNCHANGED <<selectVars, touchVars, viewerVars, bfastVars, decodeVars, loadVars, sceneVars>>

NextGeometry == AllocateGeometryMesh

SpecGeometry == InitGeometry /\ [][NextGeometry]_vars

----------------------------------------------------------------------------
(* Properties of allocateGeometry *)

\* a submesh the claims keep: no material, or a material of alpha >= 0.9
Kept(submesh) ==
    LET material == At0(g3d.submeshMaterial, submesh)
    IN material < 0 \/ 10 * At0(g3d.materialColors, 4 * material + 3) >= 9 * 32

SubmeshesOf(m) ==
    LET range == GetMeshSubmeshRange(g3d, m) IN range[1]..(range[2] - 1)

\* the vertex indices of a submesh, in order
IndicesOf(submesh) ==
    LET range == GetSubmeshIndexRange(g3d, submesh)
    IN [i \in 1..(range[2] - range[1]) |-> At0(g3d.indices, range[1] + i - 1)]

\* the indices of the kept submeshes of mesh m, in submesh order
RECURSIVE KeptFrom(_, _)
KeptFrom(submesh, meshEnd) ==
    IF submesh >= meshEnd THEN <<>>
    ELSE (IF Kept(submesh) THEN IndicesOf(submesh) ELSE <<>>) \o KeptFrom(submesh + 1, meshEnd)

KeptIndices(m) ==
    LET range == GetMeshSubmeshRange(g3d, m) IN KeptFrom(range[1], range[2])

\* C9: in the slice of a mesh with a kept index every index value v has
\* 0 <= v < max - min + 1, min and max the least and greatest kept vertex
\* index of the mesh, and positions and colours are those of vertices min..max.
C9_IndicesRebased ==
    \A m \in 0..(Len(resultMeshes) - 1) :
        LET kept == Range(KeptIndices(m))
            slice == resultMeshes[m + 1]
        IN  kept # {} =>
              /\ ~slice.isNull
              /\ \A i \in 1..Len(slice.index) :
                    slice.index[i] >= 0 /\ slice.index[i] < MaxOf(kept) - MinOf(kept) + 1
              /\ slice.position = Subarray(3 * MinOf(kept), 3 * (MaxOf(kept) + 1))
              /\ slice.color = Subarray(3 * MinOf(kept), 3 * (MaxOf(kept) + 1))

C9_Witness ==
    /\ Len(resultMeshes) = 2
    /\ ~resultMeshes[2].isNull
    /\ resultMeshes[2].position.begin > 0
    /\ Len(resultMeshes[2].index) >= 2
    /\ \E i \in 1..Len(resultMeshes[2].index) : resultMeshes[2].index[i] > 0

\* C10: the index buffer of the slice of mesh m is the concatenation, in
\* submesh order, of the index ranges of the submeshes of m with no material
\* or with alpha >= 0.9, each value less min; a submesh whose material has
\* alpha < 0.9 gives no index.
C10_FilteredPerSubmesh ==
    \A m \in 0..(Len(resultMeshes) - 1) :
        LET kept == KeptIndices(m)
            slice == resultMeshes[m + 1]
        IN  /\ slice.isNull <=> kept = <<>>
            /\ ~slice.isNull =>
                  slice.index = [i \in 1..Len(kept) |-> kept[i] - MinOf(Range(kept))]

C10_Witness ==
    /\ Len(resultMeshes) >= 1
    /\ SubmeshesOf(0) = {0, 1}
    /\ Kept(0) /\ ~Kept(1)
    /\ IndicesOf(0) # <<>> /\ IndicesOf(1) # <<>>
    /\ resultMeshes[1].index = [i \in 1..Len(IndicesOf(0)) |->
                                   IndicesOf(0)[i] - MinOf(Range(IndicesOf(0)))]
    /\ MinOf(Range(IndicesOf(0))) > 0

\* the kept submeshes of mesh m that have vertex v among their indices
KeptWith(m, v) ==
    {submesh \in SubmeshesOf(m) : Kept(submesh) /\ v \in Range(IndicesOf(submesh))}

\* the colour vertex v has in a slice, read through the slice's view
ColourIn(slice, v) ==
    SubSeq(ViewOf(colorBuffer, slice.color), 3 * v - slice.color.begin + 1,
           3 * v - slice.color.begin + 3)

\* C18: in the slice of every mesh allocateGeometry is done with, a vertex of
\* a kept submesh of that mesh has the colour of the last kept submesh of
\* that mesh with the vertex, whatever meshes came after it.
C18_SlicesKeepTheirColours ==
    \A m \in 0..(Len(resultMeshes) - 1) : \A v \in VertexIds :
        KeptWith(m, v) # {} =>
            ColourIn(resultMeshes[m + 1], v) = GetSubmeshColor(g3d, MaxOf(KeptWith(m, v))).rgb

----------------------------------------------------------------------------
(* parse after constructVIM: geometries with instances, and the steps *)

\* most instances of a generated geometry
MaxInstances == 4

\* Two meshes of one submesh each over three indices: mesh 0 is submesh 0 with
\* the first two indices, mesh 1 is submesh 1 with the third. A geometry is
\* its indices and the materials of the two submeshes: the meshes share
\* vertex 1 in the first two and share none in the third; the slice of mesh 1
\* is null in the second, its material being transparent.
SceneGeometries ==
    { [indices |-> <<0, 1, 1>>, submeshMaterial |-> <<-1, 0>>],
      [indices |-> <<0, 1, 1>>, submeshMaterial |-> <<0, 1>>],
      [indices |-> <<1, 2, 0>>, submeshMaterial |-> <<0, -1>>] }

\* mesh indices of instances: none (-1), mesh 0, mesh 1 and no mesh (2)
InstanceMeshIds == {-1, 0, 1, 2}

\* the x translation of instance i: 8 for all, or 0 and 8 in turn
ShiftPatterns == {"all", "alternate"}
ShiftOf(pattern, i) == IF pattern = "alternate" /\ i % 2 = 0 THEN 0 ELSE 8

InitScene ==
    /\ \E geometry \in SceneGeometries, n \in 0..MaxInstances :
        \E im \in [1..n -> InstanceMeshIds], pattern \in ShiftPatterns :
            g3d = [G3dOf(geometry.indices, <<0, 1>>, <<0, 2>>, geometry.submeshMaterial) EXCEPT
                      !.instanceMeshes = im,
                      !.instanceTransforms =
                          Concat([i \in 1..n |-> Translation(ShiftOf(pattern, i - 1))])]
    /\ mesh = 0
    /\ colorBuffer = [i \in 1..Len(g3d.positions) |-> 0]
    /\ indexBuffer = [i \in 1..Len(g3d.indices) |-> 0]
    /\ resultMeshes = <<>>
    /\ stage = "allocateGeometry" /\ instance = 0 /\ meshRefCounts = <<>>
    /\ rawMeshes = <<>> /\ instanceCounters = <<>> /\ sceneGeometry = NoSceneGeometry
    /\ singles = <<>> /\ bigMesh = NoBigMesh /\ object3DId = 0
    /\ scene = NoScene /\ firstScene = NoScene
    /\ BFastIdle /\ DecodeIdle /\ LoadIdle /\ ViewerIdle /\ TouchIdle /\ SelectIdle

\* const meshRefCounts = this.countMeshReferences(vim.g3d.instanceMeshes,
\* geometry.length), once allocateGeometry has returned
CountMeshReferencesCall ==
    /\ stage = "allocateGeometry"
    /\ mesh = Len(g3d.meshSubmeshes)
    /\ meshRefCounts' = CountMeshReferences(g3d.instanceMeshes, Len(resultMeshes))
    /\ stage' = "allocateMeshes"
    /\ UNCHANGED <<instance, rawMeshes, instanceCounters, sceneGeometry, singles,
                   bigMesh, object3DId, scene, firstScene>>
    /\ UNCHANGED <<selectVars, touchVars, viewerVars, bfastVars, decodeVars, loadVars, geometryVars>>

\* const rawMeshes = this.allocateMeshes(geometry, meshRefCounts), and the
\* first lines of applyMatrices
AllocateMeshesCall ==
    /\ stage = "allocateMeshes"
    /\ LET st == AllocateMeshes(resultMeshes, meshRefCounts, object3DId)
       IN  /\ rawMeshes' = st.meshes
           /\ object3DId' = st.nextId
    /\ instanceCounters' = [k \in 1..Len(resultMeshes) |-> 0]
    /\ sceneGeometry' = NoSceneGeometry
    /\ instance' = 0
    /\ stage' = "applyMatrices"
    /\ UNCHANGED <<meshRefCounts, singles, bigMesh, scene, firstScene>>
    /\ UNCHANGED <<selectVars, touchVars, viewerVars, bfastVars, decodeVars, loadVars, geometryVars>>

\* one pass of the loop of applyMatrices
ApplyMatricesInstance ==
    /\ stage = "applyMatrices"
    /\ instance < Len(g3d.instanceMeshes)
    /\ LET meshIndex == At0(g3d.instanceMeshes, instance)
           m == ArrayAt(rawMeshes, meshIndex, NullInstancedMesh)
           count == At0(instanceCounters, meshIndex)
           matrix == MatrixAsArray(g3d.instanceTransforms, instance, 16)
           nodes == sceneGeometry.meshIdToNodeIndex
           sphere == SphereApplyMatrix4(resultMeshes[m.geometry + 1].boundingSphere, matrix)
       IN  IF meshIndex < 0 \/ m.isNull
             THEN UNCHANGED <<instanceCounters, rawMeshes, sceneGeometry>>
             ELSE /\ instanceCounters' = Increment(instanceCounters, meshIndex)
                  /\ rawMeshes' = [rawMeshes EXCEPT ![meshIndex + 1] = SetMatrixAt(m, count, matrix)]
                  /\ sceneGeometry' =
                        [meshes |-> IF m.id \in DOMAIN nodes THEN sceneGeometry.meshes
                                    ELSE Append(sceneGeometry.meshes, m.id),
                         isNull |-> FALSE,
                         boundingSphere |-> IF sceneGeometry.isNull THEN sphere
                                            ELSE SphereUnion(sceneGeometry.boundingSphere, sphere),
                         nodeIndexToMeshInstance |->
                            MapSet(sceneGeometry.nodeIndexToMeshInstance, instance, <<m.id, count>>),
                         meshIdToNodeIndex |->
                            IF m.id \in DOMAIN nodes
                                THEN MapSet(nodes, m.id, Append(nodes[m.id], instance))
                                ELSE MapSet(nodes, m.id, <<instance>>)]
    /\ instance' = instance + 1
    /\ UNCHANGED <<stage, meshRefCounts, singles, bigMesh, object3DId, scene, firstScene>>
    /\ UNCHANGED <<selectVars, touchVars, viewerVars, bfastVars, decodeVars, loadVars, geometryVars>>

\* return new VimSceneGeometry(...) of applyMatrices, and const singles = []
ApplyMatricesReturn ==
    /\ stage = "applyMatrices"
    /\ instance = Len(g3d.instanceMeshes)
    /\ stage' = "merging"
    /\ instance' = 0
    /\ singles' = <<>>
    /\ UNCHANGED <<meshRefCounts, rawMeshes, instanceCounters, sceneGeometry,
                   bigMesh, object3DId, scene, firstScene>>
    /\ UNCHANGED <<selectVars, touchVars, viewerVars, bfastVars, decodeVars, loadVars, geometryVars>>

\* one pass of the merging loop of parse: mesh.applyMatrix4(matrix) transforms
\* the positions the slice is a view of, where they are, and computes the
\* sphere of the slice again; singles holds the slices by reference
MergingInstance ==
    /\ stage = "merging"
    /\ instance < Len(g3d.instanceMeshes)
    /\ LET meshIndex == At0(g3d.instanceMeshes, instance)
           slice == ArrayAt(resultMeshes, meshIndex, NullMesh)
           matrix == MatrixAsArray(g3d.instanceTransforms, instance, g3d.matrixArity)
           positions == ApplyMatrix4InPlace(g3d.positions, slice.position, matrix)
       IN  IF meshIndex < 0 \/ slice.isNull \/ ~IsSingle(At0(meshRefCounts, meshIndex))
             THEN UNCHANGED <<g3d, resultMeshes, singles>>
             ELSE /\ g3d' = [g3d EXCEPT !.positions = positions]
                  /\ resultMeshes' = [resultMeshes EXCEPT ![meshIndex + 1].boundingSphere =
                        ComputeBoundingSphere(ViewOf(positions, slice.position))]
                  /\ singles' = Append(singles, meshIndex)
    /\ instance' = instance + 1
    /\ UNCHANGED <<stage, meshRefCounts, rawMeshes, instanceCounters, sceneGeometry,
                   bigMesh, object3DId, scene, firstScene>>
    /\ UNCHANGED <<mesh, colorBuffer, indexBuffer>>
    /\ UNCHANGED <<selectVars, touchVars, viewerVars, bfastVars, decodeVars, loadVars>>

\* mergeBufferGeometries(singles) of no geometry reads geometries[0].index of
\* undefined: a TypeError leaves parse
MergeThrows ==
    /\ stage = "merging"
    /\ instance = Len(g3d.instanceMeshes)
    /\ singles = <<>>
    /\ stage' = "thrown"
    /\ UNCHANGED <<instance, meshRefCounts, rawMeshes, instanceCounters, sceneGeometry,
                   singles, bigMesh, object3DId, scene, firstScene>>
    /\ UNCHANGED <<selectVars, touchVars, viewerVars, bfastVars, decodeVars, loadVars, geometryVars>>

\* the values of the returned scene: the meshes in the order of the list,
\* instanced ones with the views of their slices, and the index maps with the
\* place of a mesh in the list for its id
SceneOf(geometry, big) ==
    LET PlaceOf(id) == CHOOSE k \in 1..Len(geometry.meshes) : geometry.meshes[k] = id
        RawOf(id) == CHOOSE k \in 1..Len(rawMeshes) : rawMeshes[k].id = id
    IN [returned |-> TRUE,
        meshes |-> [k \in 1..Len(geometry.meshes) |->
            IF geometry.meshes[k] = big.id
                THEN [merged |-> TRUE, view |-> Subarray(0, 0),
                      position |-> big.geometry.position, index |-> big.geometry.index,
                      color |-> big.geometry.color, instanceMatrix |-> big.instanceMatrix]
                ELSE LET m == rawMeshes[RawOf(geometry.meshes[k])]
                         slice == resultMeshes[m.geometry + 1]
                     IN [merged |-> FALSE, view |-> slice.position,
                         position |-> <<>>, index |-> slice.index,
                         color |-> ViewOf(colorBuffer, slice.color),
                         instanceMatrix |-> m.instanceMatrix]],
        boundingSphere |-> geometry.boundingSphere,
        nodeIndexToMeshInstance |->
            [i \in DOMAIN geometry.nodeIndexToMeshInstance |->
                <<PlaceOf(geometry.nodeIndexToMeshInstance[i][1]),
                  geometry.nodeIndexToMeshInstance[i][2]>>],
        meshIdToNodeIndex |->
            [k \in {PlaceOf(id) : id \in DOMAIN geometry.meshIdToNodeIndex} |->
                geometry.meshIdToNodeIndex[geometry.meshes[k]]]]

\* the end of parse: the merged geometry, its mesh of one instance with the
\* identity, the sphere of the merged geometry as the sphere of the scene
MergeReturns ==
    /\ stage = "merging"
    /\ instance = Len(g3d.instanceMeshes)
    /\ singles # <<>>
    /\ LET merged == MergeBufferGeometries(
                        [k \in 1..Len(singles) |-> resultMeshes[singles[k] + 1]],
                        g3d.positions, colorBuffer)
           big == [merged EXCEPT !.boundingSphere = ComputeBoundingSphere(merged.position)]
           m == SetMatrixAt([NewInstancedMesh(object3DId, -1, 1) EXCEPT !.geometry = big],
                            0, Identity)
           geometry == [sceneGeometry EXCEPT !.meshes = Append(@, m.id),
                                             !.isNull = FALSE,
                                             !.boundingSphere = big.boundingSphere]
       IN  /\ bigMesh' = m
           /\ sceneGeometry' = geometry
           /\ scene' = SceneOf(geometry, m)
    /\ object3DId' = object3DId + 1
    /\ stage' = "returned"
    /\ UNCHANGED <<instance, meshRefCounts, rawMeshes, instanceCounters, singles, firstScene>>
    /\ UNCHANGED <<selectVars, touchVars, viewerVars, bfastVars, decodeVars, loadVars, geometryVars>>

\* parse(data) once more, on the buffer the first call was given: the
\* attributes of the geometry are views of that buffer again
ParseAgain ==
    /\ stage = "returned"
    /\ ~firstScene.returned
    /\ firstScene' = scene
    /\ stage' = "allocateGeometry"
    /\ mesh' = 0
    /\ colorBuffer' = [i \in 1..Len(g3d.positions) |-> 0]
    /\ indexBuffer' = [i \in 1..Len(g3d.indices) |-> 0]
    /\ resultMeshes' = <<>>
    /\ instance' = 0 /\ meshRefCounts' = <<>> /\ rawMeshes' = <<>>
    /\ instanceCounters' = <<>> /\ sceneGeometry' = NoSceneGeometry
    /\ singles' = <<>> /\ bigMesh' = NoBigMesh /\ scene' = NoScene
    /\ UNCHANGED <<g3d, object3DId>>
    /\ UNCHANGED <<selectVars, touchVars, viewerVars, bfastVars, decodeVars, loadVars>>

NextScene ==
    \/ AllocateGeometryMesh
    \/ CountMeshReferencesCall
    \/ AllocateMeshesCall
    \/ ApplyMatricesInstance
    \/ ApplyMatricesReturn
    \/ MergingInstance
    \/ MergeThrows
    \/ MergeReturns
    \/ ParseAgain

SpecScene == InitScene /\ [][NextScene]_vars

----------------------------------------------------------------------------
(* Properties of the reference counts and of the scene parse returns *)

InstanceIds == 0..(Len(g3d.instanceMeshes) - 1)
MeshOf(i) == At0(g3d.instanceMeshes, i)
TransformOf(i) == MatrixAsArray(g3d.instanceTransforms, i, 16)

\* countMeshReferences has returned
Counted == stage \in {"allocateMeshes", "applyMatrices", "merging", "thrown", "returned"}

RECURSIVE Sum(_)
Sum(s) == IF s = <<>> THEN 0 ELSE Head(s) + Sum(Tail(s))

\* C11 as stated: the reference counts add up to the number of instances of a
\* mesh index that is not negative.
C11_SumAsStated ==
    Counted => Sum(meshRefCounts) = Cardinality({i \in InstanceIds : MeshOf(i) >= 0})

\* C11: the reference counts add up to the number of instances whose mesh
\* index is one of the meshCount meshes, 0 <= index < meshCount.
C11_SumOfCounts ==
    Counted => Sum(meshRefCounts) =
        Cardinality({i \in InstanceIds : MeshOf(i) >= 0 /\ MeshOf(i) < Len(resultMeshes)})

C11_Witness ==
    /\ Counted
    /\ \E i, j, k \in InstanceIds :
            MeshOf(i) = Len(resultMeshes) /\ MeshOf(j) = -1 /\ MeshOf(k) = 0
    /\ Sum(meshRefCounts) = 2

\* a live instance: of an existing mesh whose slice is not null
Live(i) ==
    /\ MeshOf(i) >= 0 /\ MeshOf(i) < Len(resultMeshes)
    /\ ~resultMeshes[MeshOf(i) + 1].isNull

\* the instanced meshes of the returned list
InstancedIds == Range(sceneGeometry.meshes) \ {bigMesh.id}
RawMesh(id) == rawMeshes[CHOOSE k \in 1..Len(rawMeshes) : rawMeshes[k].id = id]

\* instance i has a slot of an instanced mesh of the list, of its own mesh
\* and with its own transform
InInstanced(i) ==
    \E id \in InstancedIds :
        /\ RawMesh(id).geometry = MeshOf(i)
        /\ \E slot \in 0..(RawMesh(id).count - 1) :
              /\ i \in DOMAIN sceneGeometry.nodeIndexToMeshInstance
              /\ sceneGeometry.nodeIndexToMeshInstance[i] = <<id, slot>>
              /\ RawMesh(id).instanceMatrix[slot + 1] = TransformOf(i)

\* the slice of instance i is one of the merged geometries, and the merged
\* mesh is in the list
InMerged(i) ==
    /\ \E k \in 1..Len(singles) : singles[k] = MeshOf(i)
    /\ ~bigMesh.isNull /\ bigMesh.id \in Range(sceneGeometry.meshes)

\* C12: in the returned scene a live instance of a mesh counted more than
\* once is in an instanced mesh and not in the merged one, a live instance of
\* a mesh counted once is in the merged mesh and in no instanced one, and no
\* live instance is of a mesh counted less.
C12_Partition ==
    stage = "returned" =>
        \A i \in InstanceIds : Live(i) =>
            LET count == At0(meshRefCounts, MeshOf(i))
            IN  /\ count >= 1
                /\ count > 1 => InInstanced(i) /\ ~InMerged(i)
                /\ count = 1 => InMerged(i) /\ ~InInstanced(i)

C12_Witness ==
    /\ stage = "returned"
    /\ \E i, j, k \in InstanceIds :
            /\ Live(i) /\ At0(meshRefCounts, MeshOf(i)) = 2 /\ InInstanced(i)
            /\ Live(j) /\ At0(meshRefCounts, MeshOf(j)) = 1 /\ InMerged(j)
            /\ ~Live(k)

\* C13: in the returned scene the table from node index to (mesh, slot) has
\* one entry for every live instance, of an instanced mesh or of the merged
\* one.
C13_EveryLiveInstanceMapped ==
    stage = "returned" =>
        \A i \in InstanceIds : Live(i) =>
            /\ i \in DOMAIN sceneGeometry.nodeIndexToMeshInstance
            /\ sceneGeometry.nodeIndexToMeshInstance[i][1] \in Range(sceneGeometry.meshes)

\* sphere a contains sphere b
Contains(a, b) == a.min <= b.min /\ b.max <= a.max

\* The transformed bounding sphere of live instance i. The sphere of a slice
\* with an InstancedMesh is the one allocateGeometry computed; the sphere of a
\* merged slice was computed again when the transform was baked into it.
TransformedSphere(i) ==
    LET slice == resultMeshes[MeshOf(i) + 1]
    IN IF At0(meshRefCounts, MeshOf(i)) > 1
          THEN SphereApplyMatrix4(slice.boundingSphere, TransformOf(i))
          ELSE slice.boundingSphere

\* C14: the bounding sphere of the returned scene contains the transformed
\* bounding sphere of every live instance, of the instanced meshes and of the
\* merged one.
C14_BoundingVolumeIsUnion ==
    stage = "returned" =>
        \A i \in InstanceIds : Live(i) =>
            Contains(sceneGeometry.boundingSphere, TransformedSphere(i))

\* an instance of no mesh: its mesh index is negative or past the meshes
Sentinel(i) == MeshOf(i) < 0 \/ MeshOf(i) >= Len(g3d.meshSubmeshes)

\* the reference count of every mesh is the number of instances of that mesh
CountsOfMeshesOnly ==
    Counted =>
        \A m \in 0..(Len(meshRefCounts) - 1) :
            At0(meshRefCounts, m) = Cardinality({i \in InstanceIds : MeshOf(i) = m})

\* an instance of no mesh is in neither table
SentinelsAbsent ==
    \A i \in InstanceIds : Sentinel(i) =>
        /\ i \notin DOMAIN sceneGeometry.nodeIndexToMeshInstance
        /\ \A id \in DOMAIN sceneGeometry.meshIdToNodeIndex :
              i \notin Range(sceneGeometry.meshIdToNodeIndex[id])

\* a pass of the loop of applyMatrices or of the merging loop over an
\* instance of no mesh goes on to the next instance and changes nothing else
SentinelPass ==
    (stage \in {"applyMatrices", "merging"} /\ instance < Len(g3d.instanceMeshes)
        /\ Sentinel(instance))
    => /\ instance' = instance + 1
       /\ stage' = stage
       /\ UNCHANGED <<meshRefCounts, rawMeshes, instanceCounters, sceneGeometry,
                      singles, bigMesh, object3DId, scene, firstScene, geometryVars>>

\* parse throws only when no live instance is of a mesh counted once
ThrowsForNoSingle ==
    stage = "thrown" =>
        \A i \in InstanceIds : Live(i) => At0(meshRefCounts, MeshOf(i)) > 1

\* C15: an instance whose mesh index is negative or >= the number of meshes
\* changes no reference count, gets no slot, adds no geometry to merge,
\* leaves the bounding sphere as it is, is in neither table of the index
\* maps, and parse does not fail because of it.
C15_SentinelSkipped ==
    /\ [](CountsOfMeshesOnly /\ SentinelsAbsent /\ ThrowsForNoSingle)
    /\ [][SentinelPass]_vars

C15_Witness ==
    /\ stage = "returned"
    /\ \E i, j, k \in InstanceIds :
            /\ MeshOf(i) = -1 /\ MeshOf(j) >= Len(resultMeshes)
            /\ i < k /\ j < k /\ Live(k) /\ InMerged(k)

\* The values of a scene now: the positions of an instanced mesh are read
\* through its view of the positions of the geometry, which both parses of a
\* buffer have in that buffer.
ValuesOf(sc) ==
    [returned |-> sc.returned,
     meshes |-> [k \in 1..Len(sc.meshes) |->
        [merged |-> sc.meshes[k].merged,
         position |-> IF sc.meshes[k].merged THEN sc.meshes[k].position
                      ELSE ViewOf(g3d.positions, sc.meshes[k].view),
         index |-> sc.meshes[k].index,
         color |-> sc.meshes[k].color,
         instanceMatrix |-> sc.meshes[k].instanceMatrix]],
     boundingSphere |-> sc.boundingSphere,
     nodeIndexToMeshInstance |-> sc.nodeIndexToMeshInstance,
     meshIdToNodeIndex |-> sc.meshIdToNodeIndex]

\* C16: when parse has returned twice for one buffer, the two scenes have
\* equal positions, indices, colours, instance transforms, bounding sphere
\* and index maps.
C16_ParseTwiceEqual ==
    (stage = "returned" /\ firstScene.returned) => ValuesOf(firstScene) = ValuesOf(scene)

----------------------------------------------------------------------------
(* getElementNameFromNodeIndex: the tables of a loaded vim and the call *)

\* most rows of a generated column
MaxRows == 2

\* values of a generated column: no row (-1) and rows 0 and 1
RowValues == {-1, 0, 1}

\* a table of one column, of no column, or no table
TablesOf(table, column) ==
    {EmptyMap, MapSet(EmptyMap, table, EmptyMap)}
    \cup {MapSet(EmptyMap, table, MapSet(EmptyMap, column, rows)) :
            rows \in SeqsUpTo(RowValues, MaxRows)}

\* the union of two maps of different keys
Merge(a, b) == [k \in DOMAIN a \cup DOMAIN b |-> IF k \in DOMAIN a THEN a[k] ELSE b[k]]

InitViewer ==
    /\ \E nodes \in TablesOf("Vim.Node", "Rvt.Element"),
          elements \in TablesOf("Rvt.Element", "Name"),
          names \in {<<>>, <<"Wall">>, <<"Wall", "Door">>} :
            vim = [bim |-> Merge(nodes, elements), strings |-> names]
    /\ nodeIndex \in 0..MaxRows
    /\ elementName = NotCalled
    /\ BFastIdle /\ DecodeIdle /\ LoadIdle /\ GeometryIdle /\ SceneIdle /\ TouchIdle /\ SelectIdle

\* const elementName = this.getElementNameFromNodeIndex(nodeIndex)
GetElementNameCall ==
    /\ ~elementName.called
    /\ elementName' = GetElementNameFromNodeIndex(vim, nodeIndex)
    /\ UNCHANGED <<vim, nodeIndex>>
    /\ UNCHANGED <<selectVars, touchVars, bfastVars, decodeVars, loadVars, geometryVars, sceneVars>>

NextViewer == GetElementNameCall

SpecViewer == InitViewer /\ [][NextViewer]_vars

\* C17: the lookup of a name throws for no node index and no tables: it
\* returns the name of the element or no name.
C17_LookupNeverFails ==
    elementName.called => ~elementName.threw

\* C19: the merging loop of parse leaves the slices of allocateGeometry and
\* the positions they are views of as they were.
C19_MergeLeavesSlices ==
    [][stage = "merging" => (g3d' = g3d /\ resultMeshes' = resultMeshes)]_vars

\* applyMatrices has returned
Placed == stage \in {"merging", "thrown", "returned"}

\* the meshes counted more than once whose slice is not null
InstancedMeshes ==
    {m \in 0..(Len(resultMeshes) - 1) :
        At0(meshRefCounts, m) > 1 /\ ~resultMeshes[m + 1].isNull}

InstancesOf(m) == {i \in InstanceIds : MeshOf(i) = m}

\* a set of numbers in increasing order
RECURSIVE Increasing(_)
Increasing(S) == IF S = {} THEN <<>> ELSE <<MinOf(S)>> \o Increasing(S \ {MinOf(S)})

PlacesOf(id) == {k \in 1..Len(sceneGeometry.meshes) : sceneGeometry.meshes[k] = id}

\* the batch of mesh m: one InstancedMesh of as many slots as m is counted,
\* once in the list, whose slots 0, 1, ... hold the transforms of the
\* instances of m in increasing instance index, with both tables saying so
BatchOf(m) ==
    LET batch == rawMeshes[m + 1]
        nodes == Increasing(InstancesOf(m))
    IN  /\ ~batch.isNull /\ batch.geometry = m
        /\ batch.count = At0(meshRefCounts, m)
        /\ Len(nodes) = batch.count
        /\ Cardinality(PlacesOf(batch.id)) = 1
        /\ batch.id \in DOMAIN sceneGeometry.meshIdToNodeIndex
        /\ sceneGeometry.meshIdToNodeIndex[batch.id] = nodes
        /\ \A s \in 0..(batch.count - 1) :
              /\ sceneGeometry.nodeIndexToMeshInstance[nodes[s + 1]] = <<batch.id, s>>
              /\ batch.instanceMatrix[s + 1] = TransformOf(nodes[s + 1])

\* the instanced meshes of the list are those batches, in the order of the
\* first instance of their meshes
BatchesInOrder ==
    /\ InstancedIds = {rawMeshes[m + 1].id : m \in InstancedMeshes}
    /\ \A m1, m2 \in InstancedMeshes :
          MinOf(InstancesOf(m1)) < MinOf(InstancesOf(m2)) =>
              MaxOf(PlacesOf(rawMeshes[m1 + 1].id)) < MinOf(PlacesOf(rawMeshes[m2 + 1].id))

\* a slot that holds a transform is not written again
SlotWrittenOnce ==
    (stage = "applyMatrices" /\ stage' = "applyMatrices") =>
        \A k \in 1..Len(rawMeshes) : \A s \in 1..rawMeshes[k].count :
            rawMeshes[k].instanceMatrix[s] # ZeroMatrix =>
                rawMeshes'[k].instanceMatrix[s] = rawMeshes[k].instanceMatrix[s]

\* C20: every mesh counted c > 1 times with a non-null slice has one
\* instanced mesh of c slots, in the list of meshes in the order of the first
\* instances; its instances in increasing index have the slots 0, ..., c - 1,
\* each written once, and its node list has at place s the instance of slot s.
C20_SlotsInInstanceOrder ==
    /\ [](Placed => (BatchesInOrder /\ \A m \in InstancedMeshes : BatchOf(m)))
    /\ [][SlotWrittenOnce]_vars

\* two instanced meshes, mesh 1 first, in a list applyMatrices returned
C20_Witness ==
    /\ Placed
    /\ InstancedMeshes = {0, 1}
    /\ MinOf(InstancesOf(1)) < MinOf(InstancesOf(0))
    /\ sceneGeometry.meshes[1] = rawMeshes[2].id
    /\ sceneGeometry.meshIdToNodeIndex[rawMeshes[1].id] = <<1, 3>>
    /\ rawMeshes[1].instanceMatrix[2] = TransformOf(3)

\* the positions of the generated geometries, as the first parse reads them
OriginalPositions == G3dOf(<<>>, <<>>, <<>>, <<>>).positions

\* the live instances of meshes counted once, in increasing instance index
SingleInstances ==
    Increasing({i \in InstanceIds : Live(i) /\ At0(meshRefCounts, MeshOf(i)) = 1})

\* the positions of the slice of instance i, as allocateGeometry cut them,
\* transformed by the matrix of the instance
TransformedSlice(i) ==
    LET values == ViewOf(OriginalPositions, resultMeshes[MeshOf(i) + 1].position)
    IN [k \in 1..Len(values) |->
            IF k % 3 = 1 THEN ApplyMatrix4(values[k], TransformOf(i)) ELSE values[k]]

\* the merged mesh of a returned scene: once in the list and last, of one
\* slot with the identity, its positions the transformed slices of the live
\* instances of meshes counted once, in instance order (of a first parse)
MergedMeshAsStated ==
    /\ ~bigMesh.isNull
    /\ PlacesOf(bigMesh.id) = {Len(sceneGeometry.meshes)}
    /\ bigMesh.count = 1 /\ bigMesh.instanceMatrix = <<Identity>>
    /\ ~firstScene.returned =>
          bigMesh.geometry.position =
              Concat([k \in 1..Len(SingleInstances) |-> TransformedSlice(SingleInstances[k])])

\* C21: parse does not throw, whatever the number of live instances of meshes
\* counted once, and the scene it returns has one merged mesh, after the
\* instanced ones, of one slot with the identity, whose geometry is the
\* transformed slices of those instances one after the other.
C21_OneMergedMesh ==
    /\ stage # "thrown"
    /\ stage = "returned" => MergedMeshAsStated


----------------------------------------------------------------------------
(* InputTouch: the handlers of touchstart, touchmove and touchend *)

\* fingers a screen follows at once
MaxTouches == 4
\* pageX of a touch; pageY is 0 for every generated touch
PageXs == {0, 4, 8, 12}

\* touchToVector(touch)
TouchToVector(pageX) == <<pageX, 0>>

\* average(p1, p2): p1.clone().lerp(p2, 0.5)
Average(p1, p2) == <<p1[1] + (p2[1] - p1[1]) \div 2, p1[2] + (p2[2] - p1[2]) \div 2>>

\* a.clone().sub(b), which reads b.x of an undefined b
Sub(a, b) == <<a[1] - b[1], a[2] - b[2]>>
\* v.length()
Length(v) == ISqrt(v[1] * v[1] + v[2] * v[2])
\* a.distanceTo(b)
DistanceTo(a, b) == Length(Sub(a, b))
\* Math.abs(x)
Abs(x) == IF x < 0 THEN -x ELSE x

\* new Date().getTime() of a touchstart; the time that has passed at the
\* touchend is drawn from Elapsed
Now == <<0>>
TapTime == 500
Elapsed == {0, TapTime}

InitTouch ==
    /\ TouchIdle
    /\ BFastIdle /\ DecodeIdle /\ LoadIdle /\ GeometryIdle /\ SceneIdle /\ ViewerIdle
    /\ SelectIdle

\* onTouchStart(event): fingers land, event.touches lists every finger down
OnTouchStart ==
    \E landed \in 1..(MaxTouches - fingers), x0 \in PageXs, x1 \in PageXs :
        LET length == fingers + landed IN
        /\ fingers' = length
        /\ touchStartTime' = Now
        /\ IF length = 1
              THEN /\ touchStart' = TouchToVector(x0)
                   /\ touchStart1' = Undefined /\ touchStart2' = Undefined
              ELSE IF length = 2
              THEN /\ touchStart1' = TouchToVector(x0)
                   /\ touchStart2' = TouchToVector(x1)
                   /\ touchStart' = Average(TouchToVector(x0), TouchToVector(x1))
              ELSE UNCHANGED <<touchStart, touchStart1, touchStart2>>
        /\ gesture' = [handler |-> "onTouchStart", touches |-> length, called |-> "none"]
        /\ UNCHANGED <<selectVars, viewerVars, bfastVars, decodeVars, loadVars, geometryVars,
                       sceneVars>>

\* onTouchMove(event): a finger moves, event.touches lists every finger down
OnTouchMove ==
    \E x0 \in PageXs, x1 \in PageXs :
        LET length == fingers
            pos == TouchToVector(x0)
            p1 == TouchToVector(x0)
            p2 == TouchToVector(x1)
            p == Average(p1, p2)
            threw == [handler |-> "onTouchMove", touches |-> length, called |-> "TypeError"]
        IN
        /\ length >= 1
        /\ IF length = 1
              THEN IF touchStart = Undefined
                     THEN gesture' = threw /\ UNCHANGED touchStart
                     ELSE /\ touchStart' = pos
                          /\ gesture' = [handler |-> "onTouchMove", touches |-> length,
                                          called |-> "onDrag"]
              ELSE IF \/ touchStart = Undefined \/ touchStart1 = Undefined
                      \/ touchStart2 = Undefined
                     THEN gesture' = threw /\ UNCHANGED touchStart
                     ELSE /\ touchStart' = p
                          /\ gesture' =
                               [handler |-> "onTouchMove", touches |-> length,
                                called |->
                                  IF Length(Sub(touchStart, p)) >
                                          Abs(DistanceTo(p1, p2)
                                               - DistanceTo(touchStart1, touchStart2))
                                  THEN "onDoubleDrag" ELSE "onPinchSpread"]
        /\ IF length >= 2 /\ gesture'.called # "TypeError"
              THEN touchStart1' = p1 /\ touchStart2' = p2
              ELSE UNCHANGED <<touchStart1, touchStart2>>
        /\ UNCHANGED <<touchStartTime, fingers>>
        /\ UNCHANGED <<selectVars, viewerVars, bfastVars, decodeVars, loadVars, geometryVars,
                       sceneVars>>

\* onTouchEnd(event): fingers are lifted; the fields are reset whether or
\* not a finger stays down
OnTouchEnd ==
    \E lifted \in 1..fingers, elapsed \in Elapsed :
        /\ fingers' = fingers - lifted
        /\ gesture' =
             [handler |-> "onTouchEnd", touches |-> fingers - lifted,
              called |->
                IF /\ touchStart # Undefined /\ touchStartTime # Undefined
                   /\ touchStart1 = Undefined /\ touchStart2 = Undefined
                   /\ elapsed < TapTime
                THEN "onTap" ELSE "none"]
        /\ touchStart' = Undefined /\ touchStart1' = Undefined
        /\ touchStart2' = Undefined /\ touchStartTime' = Undefined
        /\ UNCHANGED <<selectVars, viewerVars, bfastVars, decodeVars, loadVars, geometryVars,
                       sceneVars>>

NextTouch == OnTouchStart \/ OnTouchMove \/ OnTouchEnd

SpecTouch == InitTouch /\ [][NextTouch]_vars

\* C22: whenever onTouchMove handles one touch touchStart is set, whenever
\* it handles two or more touches touchStart, touchStart1 and touchStart2 are
\* set, and no handler reads a start position that is unset.
C22_StartPositionsSet ==
    [][/\ (gesture'.handler = "onTouchMove" /\ gesture'.touches = 1)
            => touchStart # Undefined
       /\ (gesture'.handler = "onTouchMove" /\ gesture'.touches >= 2)
            => (touchStart # Undefined /\ touchStart1 # Undefined
                /\ touchStart2 # Undefined)
       /\ gesture'.called # "TypeError"]_vars


----------------------------------------------------------------------------
(* Viewer.select: the node index of the hit and the lookup of its name *)

\* mesh.userData.instanceIndices of the meshes that are hit: undefined on a
\* mesh that is not of a vim, else the node index of every slot
InstanceIndices == {Undefined, <<0>>, <<1>>, <<0, 1>>, <<1, 0>>, <<2, 0>>}
\* hits[0].instanceId
HitInstanceIds == 0..MaxRows

\* return null
Null == [isNull |-> TRUE, value |-> 0]
\* return indices[instance]
Found(n) == [isNull |-> FALSE, value |-> n]

\* getNodeIndex(mesh, instance)
GetNodeIndex(h) ==
    IF h.instanceIndices = Undefined THEN Null
    ELSE IF Len(h.instanceIndices) <= h.instanceId THEN Null
    ELSE Found(h.instanceIndices[h.instanceId + 1])

\* if (nodeIndex): null and 0 are falsy
Truthy(n) == ~n.isNull /\ n.value # 0

InitSelect ==
    /\ \E nodes \in TablesOf("Vim.Node", "Rvt.Element"),
          elements \in TablesOf("Rvt.Element", "Name"),
          names \in {<<>>, <<"Wall">>, <<"Wall", "Door">>} :
            vim = [bim |-> Merge(nodes, elements), strings |-> names]
    /\ nodeIndex = 0 /\ elementName = NotCalled
    /\ \E indices \in InstanceIndices, instanceId \in HitInstanceIds :
            hit = [instanceIndices |-> indices, instanceId |-> instanceId]
    /\ selection = NotSelected
    /\ BFastIdle /\ DecodeIdle /\ LoadIdle /\ GeometryIdle /\ SceneIdle /\ TouchIdle

\* select(mesh, index)
Select ==
    /\ ~selection.called
    /\ LET found == GetNodeIndex(hit) IN
        /\ selection' = [called |-> TRUE, isNull |-> found.isNull, value |-> found.value]
        /\ IF Truthy(found)
              THEN /\ nodeIndex' = found.value
                   /\ elementName' = GetElementNameFromNodeIndex(vim, found.value)
              ELSE UNCHANGED <<nodeIndex, elementName>>
    /\ UNCHANGED <<vim, hit>>
    /\ UNCHANGED <<touchVars, bfastVars, decodeVars, loadVars, geometryVars, sceneVars>>

NextSelect == Select

SpecSelect == InitSelect /\ [][NextSelect]_vars

\* C23: select passes the node index that getNodeIndex finds to
\* getElementNameFromNodeIndex for every value from 0 on, and skips the
\* lookup only when getNodeIndex returns null.
C23_LookupForEveryNodeIndex ==
    selection.called =>
        /\ elementName.called <=> ~selection.isNull
        /\ elementName.called => nodeIndex = selection.value

====
